---- MODULE Spec2Model ----
(***************************************************************************)
(* Model of vscode-pytest-runner: test discovery (src/parser.ts), cursor   *)
(* resolution and string helpers (util.ts), and the command / debug        *)
(* descriptor builder (pytestRunner.ts, pytestRunnerConfig.ts).            *)
(*                                                                         *)
(* Strings are sequences of atoms.  An atom is either one character the    *)
(* code inspects (":", a quote, a space, a path separator) or an opaque    *)
(* chunk of characters none of which the code inspects ("test_x", "-v").   *)
(* The empty sequence is the empty string; an absent (undefined / null)    *)
(* string is modelled as the empty string wherever the code only tests     *)
(* truthiness.                                                             *)
(***************************************************************************)
EXTENDS Integers, Sequences, FiniteSets, TLC

VARIABLES
    pc,          \* position of the call that took the last step: "input" before any, "done" after
    file,        \* the file on disk: [exists, path, readable, lines]
    decls,       \* the test declarations the file was written from (its source structure)
    astMode,     \* how the AST subprocess ends: see AstModes
    rawTests,    \* the `tests` array of the AST parser's JSON output
    tree,        \* the PythonTestNode[] returned by the last parse(filePath)
    editor,      \* window.activeTextEditor: [present, selection, line]; its document is file
    workspace,   \* [first, ofDoc]: workspaceFolders[0] and the folder of the document ('' if none)
    disk,        \* other files on disk: [dirs, files, poetry, unreadable]
    poetryEnv,   \* trimmed stdout of 'poetry env info --path'; '' when the command fails
    settings,    \* the pytestrunner.* configuration values
    req,         \* the arguments the command is invoked with
    selector,    \* the test name the handler resolved ('' for undefined)
    parseCalls,  \* number of parse(filePath) calls so far; each returns a newly built array
    sent,        \* texts passed to terminal.sendText, in order
    debugStarted,   \* configurations passed to debug.startDebugging, in order
    warnings,    \* number of showWarningMessage calls
    previousCommand,  \* PytestRunner.previousCommand: [kind, command, config]
    rejected,    \* whether the handler's promise was rejected
    terminal,    \* PytestRunner.terminal: "undefined" or the terminal created last
    built,       \* the command or debug configuration built last, and by which build
    saves,       \* number of editor.document.save() calls
    execCalls,   \* number of execSync runs of the interpreter on ast_parser.py
    lastSuccessfulCodeLens,  \* PytestRunnerCodeLensProvider.lastSuccessfulCodeLens
    requests,    \* the provideCodeLenses calls so far: document, outcome, value returned
    search,      \* the last direct searchPathToParent call: [startingPath, ancestorPath, result]
    inflight     \* the calls of the handlers, each suspended at an await or returned: per call [at, ...]

parseVars == <<file, decls, astMode, rawTests>>
envVars == <<editor, workspace, disk, poetryEnv, settings>>
runVars ==
    <<selector, parseCalls, execCalls, sent, debugStarted, warnings, previousCommand, rejected,
      terminal, built>>
lensVars == <<lastSuccessfulCodeLens, requests>>

vars == <<pc, parseVars, tree, envVars, req, runVars, saves, lensVars, search, inflight>>

----------------------------------------------------------------------------
(* Bounds *)

MaxTests == 3
MaxLine == 2
MaxFileLines == 2
MaxDecls == 3
MaxProgram == 3
MaxCursor == 4
MaxSel == 3
MaxOpts == 2
MaxRequests == 3
MaxCommands == 3
MaxOps == 2

----------------------------------------------------------------------------
(* Generic sequence helpers *)

\* the value of an expression whose evaluation threw
Thrown == <<"<thrown>">>

RECURSIVE Concat(_)
\* [].concat(...ss): the strings / arrays of ss one after another
Concat(ss) == IF ss = <<>> THEN <<>> ELSE Head(ss) \o Concat(Tail(ss))

Range(s) == {s[i] : i \in 1..Len(s)}

\* const x = v; ...body...: written Bind({body : x \in {v}}), v is evaluated once
Bind(S) == CHOOSE r \in S : TRUE

Count(s, x) == Cardinality({i \in 1..Len(s) : s[i] = x})

----------------------------------------------------------------------------
(* parser.ts: PythonTestParser.processTestNodes *)

\* first pass, the object literal: defaults for the optional fields
ToNode(test) ==
    [name     |-> test.name,
     line     |-> IF test.line = 0 THEN 1 ELSE test.line,
     type     |-> IF test.type = "" THEN "function" ELSE test.type,
     class    |-> test.class,
     fullName |-> IF test.full_name = <<>> THEN test.name ELSE test.full_name,
     async    |-> test.async,
     endLine  |-> 0,
     children |-> <<>>]

\* testsByClass.has(key): index of the group of `key`, 0 when there is none
GroupIndex(groups, key) ==
    IF \E i \in 1..Len(groups) : groups[i].key = key
    THEN CHOOSE i \in 1..Len(groups) : groups[i].key = key
    ELSE 0

\* testsByClass.get(node.class).push(node), creating the group on first use;
\* a Map iterates in the order its keys were first set
AddToGroup(groups, node) ==
    LET i == GroupIndex(groups, node.class)
    IN  IF i = 0
        THEN Append(groups, [key |-> node.class, methods |-> <<node>>])
        ELSE [groups EXCEPT ![i].methods = Append(@, node)]

RECURSIVE FirstPass(_, _, _)
\* tests.forEach of the first pass: <<processedTests, testsByClass>>
FirstPass(tests, processed, groups) ==
    IF tests = <<>> THEN <<processed, groups>>
    ELSE LET node == ToNode(Head(tests))
         IN  IF node.class # <<>>
             THEN FirstPass(Tail(tests), processed, AddToGroup(groups, node))
             ELSE FirstPass(Tail(tests), Append(processed, node), groups)

\* tests.find(test => test.name === className && test.type === 'class'):
\* index of the first such raw entry, 0 for undefined
FindClassEntry(tests, className) ==
    LET hits == {i \in 1..Len(tests) : tests[i].name = className /\ tests[i].type = "class"}
    IN  IF hits = {} THEN 0 ELSE CHOOSE i \in hits : \A j \in hits : i <= j

\* the class node synthesized in the second pass
ClassNode(className, classEntry, methods) ==
    [name     |-> className,
     line     |-> IF classEntry.line = 0 THEN 1 ELSE classEntry.line,
     type     |-> "class",
     class    |-> <<>>,
     fullName |-> className,
     async    |-> FALSE,
     endLine  |-> 0,
     children |-> methods]

\* faulty variant: the methods are pushed onto the top-level list although their class was found
GroupNodes_MethodsAtTop(tests, group) ==
    LET i == FindClassEntry(tests, group.key)
    IN  IF i # 0
        THEN <<ClassNode(group.key, tests[i], <<>>)>> \o group.methods
        ELSE group.methods

\* body of testsByClass.forEach: what one group pushes onto processedTests
GroupNodes(tests, group) ==
    LET i == FindClassEntry(tests, group.key)
    IN  IF i # 0
        THEN <<ClassNode(group.key, tests[i], group.methods)>>
        ELSE group.methods

RECURSIVE SecondPass(_, _, _)
SecondPass(tests, processed, groups) ==
    IF groups = <<>> THEN processed
    ELSE SecondPass(tests, processed \o GroupNodes(tests, Head(groups)), Tail(groups))

RECURSIVE InsertByLine(_, _)
\* insert node after every element whose line is <= its own (stable)
InsertByLine(sorted, node) ==
    IF sorted = <<>> THEN <<node>>
    ELSE IF Head(sorted).line <= node.line
         THEN <<Head(sorted)>> \o InsertByLine(Tail(sorted), node)
         ELSE <<node>> \o sorted

RECURSIVE SortByLine(_)
\* nodes.sort((a, b) => a.line - b.line); Array.prototype.sort is stable
SortByLine(nodes) ==
    IF nodes = <<>> THEN <<>>
    ELSE InsertByLine(SortByLine(SubSeq(nodes, 1, Len(nodes) - 1)), nodes[Len(nodes)])

processTestNodes(tests) ==
    LET first == FirstPass(tests, <<>>, <<>>)
    IN  SortByLine(SecondPass(tests, first[1], first[2]))

----------------------------------------------------------------------------
(* util.ts: platform, quoting, and the POSIX path module *)

\* process.platform.includes('win32'): the model is of a POSIX host
isWindows == FALSE

normalizePath(p) ==
    IF isWindows THEN [i \in 1..Len(p) |-> IF p[i] = "\\" THEN "/" ELSE p[i]] ELSE p

quote(s) ==
    LET q == IF isWindows THEN "\"" ELSE "'"
    IN  <<q>> \o s \o <<q>>

\* the keys of QUOTES: double quote, single quote and backquote; the atom "BQ"
\* stands for the backquote character
QUOTES == {"\"", "'", "BQ"}

\* faulty variant: a trailing quote is removed only when a leading one was
unquote_Paired(s) ==
    IF s # <<>> /\ s[1] \in QUOTES
    THEN LET s1 == Tail(s)
         IN  IF s1 # <<>> /\ s1[Len(s1)] \in QUOTES THEN SubSeq(s1, 1, Len(s1) - 1) ELSE s1
    ELSE s

unquote(s) ==
    LET s1 == IF s # <<>> /\ s[1] \in QUOTES THEN Tail(s) ELSE s
    IN  IF s1 # <<>> /\ s1[Len(s1)] \in QUOTES THEN SubSeq(s1, 1, Len(s1) - 1) ELSE s1

\* index of the last "/" of p, 0 when there is none
LastSlash(p) ==
    LET slashes == {i \in 1..Len(p) : p[i] = "/"}
    IN  IF slashes = {} THEN 0 ELSE CHOOSE i \in slashes : \A j \in slashes : j <= i

\* path.dirname / getDirName
Dirname(p) ==
    LET i == LastSlash(p)
    IN  IF i = 0 THEN <<".">> ELSE IF i = 1 THEN <<"/">> ELSE SubSeq(p, 1, i - 1)

\* process.cwd() of the extension host
ProcessCwd == <<"/", "host">>

IsAbsolute(p) == p # <<>> /\ p[1] = "/"

RECURSIVE SplitPath(_, _, _)
\* the segments of p between its separators, the empty ones left out;
\* cur is the segment being read, acc the segments read
SplitPath(p, cur, acc) ==
    IF p = <<>> THEN (IF cur = <<>> THEN acc ELSE Append(acc, cur))
    ELSE IF Head(p) = "/"
    THEN SplitPath(Tail(p), <<>>, IF cur = <<>> THEN acc ELSE Append(acc, cur))
    ELSE SplitPath(Tail(p), Append(cur, Head(p)), acc)

Segments(p) == SplitPath(p, <<>>, <<>>)

RECURSIVE NormalizeSegments(_, _, _)
\* path.resolve and path.normalize: '.' is dropped, '..' removes the segment
\* before it; with nothing to remove it is dropped (absolute path) or kept
\* (relative path: allowAboveRoot)
NormalizeSegments(segs, out, allowAboveRoot) ==
    IF segs = <<>> THEN out
    ELSE IF Head(segs) = <<".">> THEN NormalizeSegments(Tail(segs), out, allowAboveRoot)
    ELSE IF Head(segs) = <<"..">>
    THEN NormalizeSegments(Tail(segs),
                           IF out # <<>> /\ out[Len(out)] # <<"..">>
                           THEN SubSeq(out, 1, Len(out) - 1)
                           ELSE IF allowAboveRoot THEN Append(out, <<"..">>)
                           ELSE out,
                           allowAboveRoot)
    ELSE NormalizeSegments(Tail(segs), Append(out, Head(segs)), allowAboveRoot)

RECURSIVE JoinSegments(_)
\* the absolute path of the segments, '/' for none
JoinSegments(segs) ==
    IF segs = <<>> THEN <<>> ELSE <<"/">> \o Head(segs) \o JoinSegments(Tail(segs))

\* path.resolve(base, p): the arguments are taken from the right until the
\* path is absolute, process.cwd() last; the result is normalised
PathResolve2(base, p) ==
    Bind({ IF segs = <<>> THEN <<"/">> ELSE JoinSegments(segs)
           : segs \in {NormalizeSegments(
                           Segments(IF IsAbsolute(p) THEN p
                                    ELSE IF IsAbsolute(base) THEN base \o <<"/">> \o p
                                    ELSE ProcessCwd \o <<"/">> \o base \o <<"/">> \o p),
                           <<>>, FALSE)} })

\* path.resolve(p)
PathResolve(p) == PathResolve2(<<>>, p)

\* path.normalize: '.' and '..' segments resolved, '..' kept at the start of
\* a relative path, a trailing separator kept
PathNormalize(p) ==
    IF p = <<>> THEN <<".">>
    ELSE Bind({ IF segs = <<>>
                THEN (IF IsAbsolute(p) THEN <<"/">>
                      ELSE IF p[Len(p)] = "/" THEN <<".", "/">> ELSE <<".">>)
                ELSE (IF IsAbsolute(p) THEN JoinSegments(segs) ELSE Tail(JoinSegments(segs)))
                     \o (IF p[Len(p)] = "/" THEN <<"/">> ELSE <<>>)
                : segs \in {NormalizeSegments(Segments(p), <<>>, ~IsAbsolute(p))} })

\* path.join(dir, name): the non-empty arguments joined with '/', normalised
PathJoin(dir, name) ==
    PathNormalize(IF dir = <<>> THEN name
                  ELSE IF name = <<>> THEN dir
                  ELSE dir \o <<"/">> \o name)

\* String.prototype.startsWith
StartsWith(s, prefix) == Len(prefix) <= Len(s) /\ SubSeq(s, 1, Len(prefix)) = prefix

----------------------------------------------------------------------------
(* parser.ts: PythonTestParser.isTestFile, path.basename *)

\* path.basename on a POSIX path: the atoms after the last "/"
RECURSIVE Basename(_)
Basename(p) ==
    IF \E i \in 1..Len(p) : p[i] = "/"
    THEN Basename(Tail(p))
    ELSE p

\* A file name is split into atoms so that a leading "test_", a "_test" before
\* the extension, an inner "test" and the extension are atoms of their own.
EndsWithPy(n) == Len(n) >= 1 /\ n[Len(n)] = ".py"
StartsWithTest_(n) == Len(n) >= 1 /\ n[1] = "test_"
EndsWith_testPy(n) == Len(n) >= 2 /\ n[Len(n) - 1] = "_test" /\ n[Len(n)] = ".py"
IncludesTest(n) == \E i \in 1..Len(n) : n[i] \in {"test_", "_test", "test"}

isTestFile(filePath) ==
    LET fileName == Basename(filePath)
    IN  EndsWithPy(fileName)
        /\ (StartsWithTest_(fileName) \/ EndsWith_testPy(fileName) \/ IncludesTest(fileName))

\* faulty variant: every .py file passes
isPythonTestFile_AnyPy(filePath) == EndsWithPy(Basename(filePath))

\* util.ts: isPythonTestFile
isPythonTestFile(filePath) ==
    LET fileName == Basename(filePath)
    IN  EndsWithPy(fileName)
        /\ (StartsWithTest_(fileName) \/ EndsWith_testPy(fileName) \/ IncludesTest(fileName))

----------------------------------------------------------------------------
(* parser.ts: PythonTestParser.parseWithRegex                              *)
(* A line is a string whose atoms are maximal runs of word characters      *)
(* ("def", "test_x"), single whitespace characters and single punctuation  *)
(* characters.                                                             *)

WS == {" ", "\t", "\r"}

\* words matching test_\w*  and  Test\w*
TestFuncWords == {"test_x", "test_y", "test_"}
TestClassWords == {"TestA", "TestB", "Test"}

RECURSIVE TrimStart(_)
TrimStart(t) == IF t # <<>> /\ Head(t) \in WS THEN TrimStart(Tail(t)) ELSE t

RECURSIVE TrimEnd(_)
TrimEnd(t) ==
    IF t # <<>> /\ t[Len(t)] \in WS THEN TrimEnd(SubSeq(t, 1, Len(t) - 1)) ELSE t

\* String.prototype.trim
Trim(t) == TrimEnd(TrimStart(t))

RECURSIVE SkipWs(_, _)
\* \s* from position i: the first position at or after i holding no whitespace
SkipWs(t, i) == IF i <= Len(t) /\ t[i] \in WS THEN SkipWs(t, i + 1) ELSE i

\* keyword \s+ (word) \s* punct, matched from position i; the captured word or <<>>
MatchDecl(t, i, keyword, words, puncts) ==
    LET j == SkipWs(t, i + 1)
        k == SkipWs(t, j + 1)
    IN  IF /\ i <= Len(t) /\ t[i] = keyword
           /\ j > i + 1 /\ j <= Len(t) /\ t[j] \in words
           /\ k <= Len(t) /\ t[k] \in puncts
        THEN <<t[j]>>
        ELSE <<>>

\* /^def\s+(test_\w*)\s*\(/
FunctionMatch(t) == MatchDecl(t, 1, "def", TestFuncWords, {"("})

\* /^class\s+(Test\w*)\s*[\(\:]/
ClassMatch(t) == MatchDecl(t, 1, "class", TestClassWords, {"(", ":"})

\* /^async\s+def\s+(test_\w*)\s*\(/
AsyncFunctionMatch(t) ==
    LET j == SkipWs(t, 2)
    IN  IF Len(t) >= 1 /\ t[1] = "async" /\ j > 2
        THEN MatchDecl(t, j, "def", TestFuncWords, {"("})
        ELSE <<>>

RegexNode(name, line, type, async) ==
    [name |-> name, line |-> line, type |-> type, class |-> <<>>, fullName |-> name,
     async |-> async, endLine |-> 0, children |-> <<>>]

\* faulty variant: the line number is the 0-based loop index
ScanLine_ZeroBased(line, i) ==
    LET t == Trim(line)
    IN  IF FunctionMatch(t) # <<>> THEN <<RegexNode(FunctionMatch(t), i, "function", FALSE)>>
        ELSE IF ClassMatch(t) # <<>> THEN <<RegexNode(ClassMatch(t), i, "class", FALSE)>>
        ELSE IF AsyncFunctionMatch(t) # <<>>
             THEN <<RegexNode(AsyncFunctionMatch(t), i, "function", TRUE)>>
        ELSE <<>>

\* body of the for loop for lines[i] (i is 0-based): the nodes it pushes
ScanLine(line, i) ==
    LET t == Trim(line)
    IN  IF FunctionMatch(t) # <<>> THEN <<RegexNode(FunctionMatch(t), i + 1, "function", FALSE)>>
        ELSE IF ClassMatch(t) # <<>> THEN <<RegexNode(ClassMatch(t), i + 1, "class", FALSE)>>
        ELSE IF AsyncFunctionMatch(t) # <<>>
             THEN <<RegexNode(AsyncFunctionMatch(t), i + 1, "function", TRUE)>>
        ELSE <<>>

RECURSIVE ScanLines(_, _)
ScanLines(lines, i) ==
    IF i >= Len(lines) THEN <<>>
    ELSE ScanLine(lines[i + 1], i) \o ScanLines(lines, i + 1)

\* an exception leaving a parse method, in place of the list it returns
ThrownList == <<[type |-> "<thrown>"]>>

\* faulty variant: the error of readFileSync is not caught
parseWithRegex_NoCatch(f) ==
    IF ~f.readable THEN ThrownList ELSE ScanLines(f.lines, 0)

\* readFileSync throws on an unreadable file; the catch returns []
parseWithRegex(f) ==
    IF ~f.readable THEN <<>> ELSE ScanLines(f.lines, 0)

----------------------------------------------------------------------------
(* parser.ts: PythonTestParser.parsePythonFile, parseTestFile *)

\* How the subprocess and the decoding of its output end:
\*   noScript    ast_parser.py is not at pythonParserPath (the method throws)
\*   execError   execSync throws: interpreter absent, non-zero exit, timeout, output over maxBuffer
\*   badJson     JSON.parse throws, or yields null (reading result.success throws)
\*   noSuccess   the object has success false or absent
\*   notArray    success is true and tests is not an array
\*   nullEntry   tests holds a null entry (processTestNodes throws reading test.name)
\*   ok          success is true and tests is an array of objects
AstModes == {"noScript", "execError", "badJson", "noSuccess", "notArray", "nullEntry", "ok"}

\* every throw inside is caught by the method's own catch, which returns []
parsePythonFile(mode, tests) ==
    IF mode = "noScript" THEN <<>>
    ELSE IF mode = "execError" THEN <<>>
    ELSE IF mode = "badJson" THEN <<>>
    ELSE IF mode = "ok" THEN processTestNodes(tests)
    ELSE IF mode = "nullEntry" THEN <<>>
    ELSE <<>>

\* whether parseTestFile reaches execSync(`python "ast_parser.py" "filePath"`)
InvokesInterpreter(f, mode) ==
    f.exists /\ isTestFile(f.path) /\ mode # "noScript"

\* faulty variant: an empty AST result is returned as it is, without the regex fallback
parseTestFile_NoFallback(f, mode, tests) ==
    IF ~f.exists THEN <<>>
    ELSE IF ~isTestFile(f.path) THEN <<>>
    ELSE parsePythonFile(mode, tests)

parseTestFile(f, mode, tests) ==
    IF ~f.exists THEN <<>>
    ELSE IF ~isTestFile(f.path) THEN <<>>
    ELSE LET result == parsePythonFile(mode, tests)
         IN  IF Len(result) > 0 THEN result ELSE parseWithRegex(f)

----------------------------------------------------------------------------
(* util.ts: findFullTestName *)

\* element.fullName || element.name
NodeSelector(element) == IF element.fullName # <<>> THEN element.fullName ELSE element.name

\* faulty variant: the first element when no element matches the line
FirstLineMatch_OrFirst(selectedLine, children) ==
    LET hits == {i \in 1..Len(children) :
                    \/ selectedLine = children[i].line
                    \/ /\ children[i].endLine # 0
                       /\ selectedLine >= children[i].line
                       /\ selectedLine <= children[i].endLine}
    IN  IF hits = {} THEN (IF children = <<>> THEN 0 ELSE 1)
        ELSE CHOOSE i \in hits : \A j \in hits : i <= j

\* the first for loop: the first element whose line is selectedLine, or whose
\* known range [line, endLine] holds it; 0 when there is none
FirstLineMatch(selectedLine, children) ==
    LET hits == {i \in 1..Len(children) :
                    \/ selectedLine = children[i].line
                    \/ /\ children[i].endLine # 0
                       /\ selectedLine >= children[i].line
                       /\ selectedLine <= children[i].endLine}
    IN  IF hits = {} THEN 0 ELSE CHOOSE i \in hits : \A j \in hits : i <= j

RECURSIVE findFullTestName(_, _)
RECURSIVE FirstNestedMatch(_, _)

\* the second for loop: the first truthy result among the elements' children
FirstNestedMatch(selectedLine, children) ==
    IF children = <<>> THEN <<>>
    ELSE Bind({(IF result # <<>> THEN result
                              ELSE FirstNestedMatch(selectedLine, Tail(children)))
                                  : result \in {findFullTestName(selectedLine, Head(children).children)}})

\* '' stands for undefined: the callers only test the result's truthiness
findFullTestName(selectedLine, children) ==
    Bind({(IF i # 0 THEN NodeSelector(children[i])
                    ELSE FirstNestedMatch(selectedLine, children))
                        : i \in {FirstLineMatch(selectedLine, children)}})

----------------------------------------------------------------------------
(* The file system seen by fs.existsSync / fs.statSync / fs.readFileSync *)

FsExists(p) == p \in disk.files \/ p \in disk.dirs \/ (file.exists /\ p = file.path)

IsDirectory(p) == p \in disk.dirs

\* fs.readFileSync(p, 'utf8') succeeds and content.includes('[tool.poetry]')
HasPoetrySection(p) == p \in disk.poetry /\ p \notin disk.unreadable

----------------------------------------------------------------------------
(* util.ts: searchPathToParent, with the two callbacks its callers pass *)

\* getPoetryProjectRoot's checkPoetryProject: dirPath or null ('')
checkPoetryProject(dirPath) ==
    LET pyprojectPath == PathJoin(dirPath, <<"pyproject.toml">>)
    IN  IF FsExists(pyprojectPath) /\ HasPoetrySection(pyprojectPath) THEN dirPath ELSE <<>>

ConfigFilenames == <<<<"pytest.ini">>, <<"pyproject.toml">>, <<"setup.cfg">>>>

\* faulty variant: the last existing config file of the folder
FirstConfigIn_Reversed(currentFolderPath) ==
    LET hits == {i \in 1..Len(ConfigFilenames) :
                    FsExists(PathJoin(currentFolderPath, ConfigFilenames[i]))}
    IN  IF hits = {} THEN <<>>
        ELSE PathJoin(currentFolderPath, ConfigFilenames[CHOOSE i \in hits : \A j \in hits : i >= j])

\* findPytestConfigPath's callback: the first existing config file of the folder
FirstConfigIn(currentFolderPath) ==
    LET hits == {i \in 1..Len(ConfigFilenames) :
                    FsExists(PathJoin(currentFolderPath, ConfigFilenames[i]))}
    IN  IF hits = {} THEN <<>>
        ELSE PathJoin(currentFolderPath, ConfigFilenames[CHOOSE i \in hits : \A j \in hits : i <= j])

Callback(kind, currentFolderPath) ==
    IF kind = "poetry" THEN checkPoetryProject(currentFolderPath)
    ELSE FirstConfigIn(currentFolderPath)

RECURSIVE SearchLoop(_, _, _)
\* the do ... while: '' stands for false
SearchLoop(currentFolderPath, endPath, kind) ==
    Bind({ IF result # <<>> THEN result
           ELSE IF parent # endPath /\ parent # currentFolderPath
                THEN SearchLoop(parent, endPath, kind)
                ELSE <<>>
           : result \in {Callback(kind, currentFolderPath)},
             parent \in {Dirname(currentFolderPath)} })

\* fs.statSync throws for a path that does not exist
searchPathToParent(startingPath, ancestorPath, kind) ==
    IF ~FsExists(startingPath) THEN Thrown
    ELSE Bind({ IF ~StartsWith(PathResolve(currentFolderPath), PathResolve(endPath))
                THEN <<>>
                ELSE SearchLoop(currentFolderPath, endPath, kind)
                : currentFolderPath \in {IF IsDirectory(startingPath)
                                         THEN startingPath ELSE Dirname(startingPath)},
                  endPath \in {Dirname(ancestorPath)} })

----------------------------------------------------------------------------
(* util.ts: resolveConfigPathOrMapping *)

\* the atoms that start with a dot
DotAtoms == {".", "..", ".py", ".txt", ".hidden", ".venv", ".tox", ".cache"}

\* a path segment that starts with a dot: with the dot option off, '*' and
\* '**' match no such segment
DotSegment(seg) == seg # <<>> /\ seg[1] \in DotAtoms

\* the glob keys the model uses, on the segments of a path; '**/pkg/**'
\* matches the pkg folder itself as well as what is below it
SegmentsMatch(key, segs) ==
    /\ segs # <<>>
    /\ \A i \in 1..Len(segs) : ~DotSegment(segs[i])
    /\ CASE key = <<"**/test_*.py">> ->
                 StartsWithTest_(segs[Len(segs)]) /\ EndsWithPy(segs[Len(segs)])
          [] key = <<"**/pkg/**">> -> \E i \in 1..Len(segs) : segs[i] = <<"pkg">>
          [] key = <<"**/*.py">> -> EndsWithPy(segs[Len(segs)])
          [] OTHER -> FALSE

\* mm.matcher(key)(targetPath)
GlobMatches(key, targetPath) == SegmentsMatch(key, Segments(targetPath))

\* configPathOrMapping is [kind, path, mapping]: kind "undefined", "string" or
\* "mapping"; the result is '' for undefined
resolveConfigPathOrMapping(configPathOrMapping, targetPath) ==
    IF configPathOrMapping.kind = "string" THEN configPathOrMapping.path
    ELSE IF configPathOrMapping.kind = "undefined" THEN <<>>
    ELSE LET m == configPathOrMapping.mapping
             hits == {i \in 1..Len(m) :
                         GlobMatches(m[i].key, targetPath)
                         \/ GlobMatches(m[i].key, normalizePath(targetPath))}
         IN  IF hits = {} THEN <<>>
             ELSE normalizePath(m[CHOOSE i \in hits : \A j \in hits : i <= j].value)

\* the showWarningMessage calls of resolveConfigPathOrMapping: one when a
\* non-empty mapping has no key matching the target
MappingWarning(configPathOrMapping, targetPath) ==
    IF configPathOrMapping.kind = "mapping"
       /\ configPathOrMapping.mapping # <<>>
       /\ \A i \in 1..Len(configPathOrMapping.mapping) :
              /\ ~GlobMatches(configPathOrMapping.mapping[i].key, targetPath)
              /\ ~GlobMatches(configPathOrMapping.mapping[i].key, normalizePath(targetPath))
    THEN 1 ELSE 0

----------------------------------------------------------------------------
(* pytestRunnerConfig.ts: PytestRunnerConfig *)

\* get('pytestrunner.changeDirectoryToWorkspaceRoot') ?? true
changeDirectoryToWorkspaceRoot ==
    IF settings.changeDirectoryToWorkspaceRoot.defined
    THEN settings.changeDirectoryToWorkspaceRoot.value ELSE TRUE

\* get('pytestrunner.pytestPath') ?? 'pytest'
pytestPath == IF settings.pytestPath.defined THEN settings.pytestPath.value ELSE <<"pytest">>

\* usePoetry !== undefined ? usePoetry : true
usePoetry == IF settings.usePoetry.defined THEN settings.usePoetry.value ELSE TRUE

\* Array.isArray(args) ? args : ['-v']
pytestArgs == IF settings.pytestArgs.isArray THEN settings.pytestArgs.value ELSE <<<<"-v">>>>

currentWorkspaceFolderPath ==
    IF ~editor.present THEN workspace.first ELSE workspace.ofDoc

\* the root as a string, '' for null, Thrown when searchPathToParent throws
getPoetryProjectRoot ==
    LET startPath == IF editor.present /\ file.path # <<>>
                     THEN Dirname(file.path)
                     ELSE currentWorkspaceFolderPath
    IN  Bind({ IF workspaceCheck # <<>> THEN normalizePath(workspaceCheck)
               ELSE Bind({ IF foundPath = Thrown THEN Thrown
                           ELSE IF foundPath # <<>> THEN normalizePath(foundPath) ELSE <<>>
                           : foundPath \in {searchPathToParent(
                                 startPath, currentWorkspaceFolderPath, "poetry")} })
               : workspaceCheck \in {checkPoetryProject(currentWorkspaceFolderPath)} })

\* "yes", "no", or "thrown" when getPoetryProjectRoot throws
detectPoetryProject ==
    Bind({(IF projectRoot = Thrown THEN "thrown"
        ELSE IF projectRoot = <<>> THEN "no"
        ELSE LET pyprojectPath == PathJoin(projectRoot, <<"pyproject.toml">>)
             IN  IF ~FsExists(pyprojectPath) THEN "no"
                 ELSE IF HasPoetrySection(pyprojectPath) THEN "yes" ELSE "no")
                     : projectRoot \in {getPoetryProjectRoot}})

\* faulty variant: the usePoetry setting is not consulted
UsingPoetry_IgnoreSetting == detectPoetryProject

\* this.usePoetry && this.detectPoetryProject(): "yes", "no" or "thrown"
UsingPoetry == IF usePoetry THEN detectPoetryProject ELSE "no"

JoinWith(ss, sep) ==
    Concat([i \in 1..Len(ss) |-> IF i = 1 THEN ss[i] ELSE sep \o ss[i]])

\* usingPoetry ? 'poetry run pytest' : this.pytestPath
BaseCommandFor(usingPoetry) ==
    IF usingPoetry = "yes" THEN <<"poetry", " ", "run", " ", "pytest">> ELSE pytestPath

\* the baseCommand of pytestCommand
baseCommand == BaseCommandFor(UsingPoetry)

pytestCommand ==
    Bind({(IF usingPoetry = "thrown" THEN Thrown
        ELSE LET args == JoinWith(pytestArgs, <<" ">>)
             IN  BaseCommandFor(usingPoetry) \o (IF args # <<>> THEN <<" ">> \o args ELSE <<>>))
                 : usingPoetry \in {UsingPoetry}})

\* '' for null
getPoetryVirtualEnvPath ==
    Bind({(IF projectRoot = Thrown THEN Thrown
        ELSE IF projectRoot = <<>> THEN <<>>
        ELSE poetryEnv)
            : projectRoot \in {getPoetryProjectRoot}})

virtualEnvPath ==
    IF settings.virtualEnvPath # <<>> THEN settings.virtualEnvPath
    ELSE Bind({(IF usingPoetry = "thrown" THEN Thrown
             ELSE IF usingPoetry = "yes"
             THEN Bind({(IF poetryEnvPath # <<>> THEN poetryEnvPath ELSE <<>>)
                 : poetryEnvPath \in {getPoetryVirtualEnvPath}})
             ELSE <<>>)
                 : usingPoetry \in {UsingPoetry}})

cwd ==
    Bind({ IF usingPoetry = "thrown" THEN Thrown
           ELSE Bind({ IF poetryRoot # <<>> THEN poetryRoot
                       ELSE Bind({ IF venvPath # <<>> THEN venvPath
                                   ELSE currentWorkspaceFolderPath
                                   : venvPath \in {virtualEnvPath} })
                       : poetryRoot \in {IF usingPoetry = "yes"
                                         THEN getPoetryProjectRoot ELSE <<>>} })
           : usingPoetry \in {UsingPoetry} })

\* '' when nothing is found, Thrown when searchPathToParent throws
findPytestConfigPath(targetPath) ==
    LET start == IF targetPath # <<>> THEN targetPath
                 ELSE Dirname(IF editor.present /\ file.path # <<>>
                              THEN file.path ELSE currentWorkspaceFolderPath)
    IN  Bind({(IF foundPath = Thrown THEN Thrown
                 ELSE IF foundPath # <<>> THEN normalizePath(foundPath) ELSE <<>>)
                     : foundPath \in {searchPathToParent(start, currentWorkspaceFolderPath, "config")}})

\* faulty variant: the override is consulted only when discovery finds nothing
getPytestConfigPath_DiscoveryFirst(targetPath) ==
    Bind({(IF foundPath # <<>> THEN foundPath
        ELSE IF configPath = <<>> THEN <<>>
        ELSE normalizePath(PathResolve2(currentWorkspaceFolderPath, configPath)))
            : configPath \in {resolveConfigPathOrMapping(settings.configPath, targetPath)},
              foundPath \in {findPytestConfigPath(targetPath)}})

\* resolveConfigPathOrMapping first, findPytestConfigPath when it gives ''
getPytestConfigPath(targetPath) ==
    Bind({(IF configPath = <<>> THEN findPytestConfigPath(targetPath)
        ELSE normalizePath(PathResolve2(currentWorkspaceFolderPath, configPath)))
            : configPath \in {resolveConfigPathOrMapping(settings.configPath, targetPath)}})

\* the python interpreter of the virtual environment, '' when it is not on disk
VenvPython(venvPath) ==
    LET pythonPath == PathJoin(venvPath, <<"bin", "/", "python">>)
    IN  IF venvPath # <<>> /\ FsExists(pythonPath) THEN pythonPath ELSE <<>>

\* PytestRunnerConfig.getPythonPath: 'python' is the fallback
ConfigPythonPath ==
    Bind({(IF venvPath = Thrown THEN Thrown
        ELSE Bind({(IF pythonPath # <<>> THEN pythonPath ELSE <<"python">>)
            : pythonPath \in {VenvPython(venvPath)}}))
            : venvPath \in {virtualEnvPath}})

\* the debugOptions getter: the setting if truthy, else the default launch
\* configuration.  Of the launch configuration the model keeps python and args
\* ('' and [] when absent); a configured object is [defined, args].
debugOptions ==
    IF settings.debugOptions.defined
    THEN [python |-> <<>>, args |-> settings.debugOptions.args]
    ELSE [python |-> ConfigPythonPath, args |-> <<>>]

isRunInExternalNativeTerminal == FALSE

----------------------------------------------------------------------------
(* pytestRunner.ts: PytestRunner, the pure parts *)

\* parse(filePath) of parser.ts for the active document
parse == parseTestFile(file, astMode, rawTests)

\* the resolved name ('' for undefined), whether parse was called, and its result
findCurrentTestName ==
    IF editor.selection # <<>>
    THEN [fullTestName |-> unquote(editor.selection), parsed |-> FALSE, testFile |-> <<>>]
    ELSE LET selectedLine == editor.line + 1
         IN  CHOOSE r \in {[fullTestName |-> findFullTestName(selectedLine, testFile),
                            parsed |-> TRUE, testFile |-> testFile] : testFile \in {parse}} :
                 TRUE

\* currentTestName || this.findCurrentTestName(editor)
ResolveTestName(currentTestName) ==
    IF currentTestName # <<>>
    THEN [fullTestName |-> currentTestName, parsed |-> FALSE, testFile |-> <<>>]
    ELSE findCurrentTestName

\* index of the first '::' of s, 0 when there is none
FirstSep(s) ==
    LET hits == {i \in 1..(Len(s) - 1) : s[i] = ":" /\ s[i + 1] = ":"}
    IN  IF hits = {} THEN 0 ELSE CHOOSE i \in hits : \A j \in hits : i <= j

\* faulty variant: the selector is passed on as it is
ReplaceSep_Keep(testName) == testName

\* testName.replace('::', ' and '): the first occurrence only
ReplaceSep(testName) ==
    LET i == FirstSep(testName)
    IN  IF i = 0 THEN testName
        ELSE SubSeq(testName, 1, i - 1) \o <<" ", "and", " ">>
             \o SubSeq(testName, i + 2, Len(testName))

\* faulty variant: every option is kept
SetOf_KeepAll(options) == options

RECURSIVE SetOf(_)
\* [...new Set(options)]: insertion order, an element already present is skipped
SetOf(options) ==
    IF options = <<>> THEN <<>>
    ELSE LET front == SetOf(SubSeq(options, 1, Len(options) - 1))
             last == options[Len(options)]
         IN  IF last \in Range(front) THEN front ELSE Append(front, last)

Quoter(withQuotes, str) == IF withQuotes THEN quote(str) ELSE str

\* what stands for the array when getPytestConfigPath throws
ThrownArgs == <<Thrown>>

\* faulty variant: the debugging flags are part of the standard arguments
buildPytestArgs_DebugFlags(filePath, testName, withQuotes, options) ==
    <<Quoter(withQuotes, normalizePath(filePath))>>
    \o (IF testName # <<>> THEN <<<<"-k">>, Quoter(withQuotes, ReplaceSep(testName))>> ELSE <<>>)
    \o pytestArgs \o SetOf(options) \o <<<<"-s">>, <<"--tb=short">>>>

\* an array of strings
buildPytestArgs(filePath, testName, withQuotes, options) ==
    LET pathArgs == <<Quoter(withQuotes, normalizePath(filePath))>>
        nameArgs == IF testName # <<>>
                    THEN IF FirstSep(testName) # 0
                         THEN <<<<"-k">>, Quoter(withQuotes, ReplaceSep(testName))>>
                         ELSE <<<<"-k">>, Quoter(withQuotes, testName)>>
                    ELSE <<>>
        configArgs == pytestArgs
    IN  Bind({(IF pytestConfigPath = Thrown THEN ThrownArgs
            ELSE pathArgs \o nameArgs
                 \o (IF pytestConfigPath # <<>>
                     THEN <<<<"-c">>, Quoter(withQuotes, normalizePath(pytestConfigPath))>>
                     ELSE <<>>)
                 \o configArgs
                 \o SetOf(options))
                     : pytestConfigPath \in {getPytestConfigPath(filePath)}})

buildPytestCommand(filePath, testName, options) ==
    Bind({ IF args = ThrownArgs THEN Thrown
           ELSE Bind({ IF prefix = Thrown THEN Thrown
                       ELSE prefix \o <<" ">> \o JoinWith(args, <<" ">>)
                       : prefix \in {pytestCommand} })
           : args \in {buildPytestArgs(filePath, testName, TRUE, options)} })

\* PytestRunner.getPythonPath: '' for undefined
getPythonPath ==
    Bind({(IF venvPath = Thrown THEN Thrown ELSE VenvPython(venvPath))
        : venvPath \in {virtualEnvPath}})

NoConfig == [thrown |-> FALSE, cwd |-> <<>>, python |-> <<>>, args |-> <<>>]

\* the launch configuration: cwd, python and args are the fields that vary
getDebugConfig(filePath, currentTestName) ==
    Bind({ IF dir = Thrown \/ config.python = Thrown \/ standardArgs = ThrownArgs
              \/ pythonPath = Thrown
           THEN [NoConfig EXCEPT !.thrown = TRUE]
           ELSE [thrown |-> FALSE,
                 cwd |-> dir,
                 python |-> IF pythonPath # <<>> THEN pythonPath ELSE config.python,
                 args |-> config.args \o standardArgs \o <<<<"-s">>, <<"--tb=short">>>>]
           : dir \in {cwd},
             config \in {debugOptions},
             standardArgs \in {buildPytestArgs(filePath, currentTestName, FALSE, <<>>)},
             pythonPath \in {getPythonPath} })

\* openNativeTerminal is config.isRunInExternalNativeTerminal at construction
\* and is only ever assigned false, so this.commands stays empty; out is the
\* text sent to the terminal so far.  This is the sendText of
\* runTerminalCommand; the creation of the terminal before the awaited clear
\* is ShowTerminal, and the resumptions check that the terminal is still there
runTerminalCommand(out, command) ==
    IF isRunInExternalNativeTerminal THEN out ELSE Append(out, command)

\* faulty variant: the cd command is sent whatever the setting says
goToCwd_Always(out) ==
    Bind({(IF dir = Thrown THEN ThrownArgs
        ELSE runTerminalCommand(out, <<"cd", " ">> \o quote(dir)))
            : dir \in {cwd}})

\* the cd command is built, and config.cwd read, whatever the setting says;
\* ThrownArgs when config.cwd throws
goToCwd(out) ==
    Bind({(IF dir = Thrown THEN ThrownArgs
        ELSE IF changeDirectoryToWorkspaceRoot
        THEN runTerminalCommand(out, <<"cd", " ">> \o quote(dir))
        ELSE out)
            : dir \in {cwd}})

\* getFileName(filePath).replace(/test_/, '').replace(/_test\.py$/, '.py')
TargetFileName(filePath) ==
    LET name == Basename(filePath)
        hits == {i \in 1..Len(name) : name[i] = "test_"}
        first == IF hits = {} THEN 0 ELSE CHOOSE i \in hits : \A j \in hits : i <= j
        n1 == IF first = 0 THEN name
              ELSE SubSeq(name, 1, first - 1) \o SubSeq(name, first + 1, Len(name))
    IN  IF EndsWith_testPy(n1) THEN SubSeq(n1, 1, Len(n1) - 2) \o <<".py">> ELSE n1

\* runCurrentTest: options || [], then '--cov' and its target when asked for
FinalOptions(filePath, options, collectCoverageFromCurrentFile) ==
    IF collectCoverageFromCurrentFile
    THEN LET targetFileDir == Dirname(filePath)
             targetFileName == TargetFileName(filePath)
             coverageTarget == IF FsExists(targetFileDir \o <<"/">> \o targetFileName)
                               THEN targetFileName ELSE targetFileDir
         IN  options \o <<<<"--cov">>, coverageTarget>>
    ELSE options

NoCommand == [kind |-> "none", command |-> <<>>, config |-> NoConfig]

----------------------------------------------------------------------------
(* Inputs of the discovery model: what the AST parser may print.           *)
(* Entries follow the external interface: name and type are present, line  *)
(* (0 = absent), class, full_name and async (FALSE = absent) are optional.  *)

ClassNames == {<<"TestA">>, <<"TestB">>}
FuncNames == {<<"test_x">>}
Lines == 0..MaxLine

Sep == <<":", ":">>

RawEntry(name, line, type, class, full) ==
    [name |-> name, line |-> line, type |-> type, class |-> class, full_name |-> full,
     async |-> FALSE]

\* the entry of a declaration made with `async def`
AsyncEntry(entry) == [entry EXCEPT !.async = TRUE]

RawEntries ==
    {RawEntry(c, l, "class", <<>>, c) : c \in ClassNames, l \in Lines}
    \cup {RawEntry(f, l, "function", <<>>, f) : f \in FuncNames, l \in Lines}
    \cup {RawEntry(f, l, "method", c, c \o Sep \o f) :
              f \in FuncNames, c \in ClassNames, l \in Lines}
    \cup {RawEntry(f, l, "method", c, <<>>) :
              f \in FuncNames, c \in ClassNames, l \in Lines}
    \cup {AsyncEntry(RawEntry(f, 1, "function", <<>>, f)) : f \in FuncNames}
    \cup {AsyncEntry(RawEntry(f, 1, "method", c, c \o Sep \o f)) :
              f \in FuncNames, c \in ClassNames}

RawLists == UNION {[1..n -> RawEntries] : n \in 0..MaxTests}

----------------------------------------------------------------------------
(* Inputs of the discovery model: files on disk *)

Dir == <<"/", "w", "/">>

TestFileNames == {<<"test_", "calc", ".py">>, <<"calc", "_test", ".py">>, <<"con", "test", ".py">>}
OtherFileNames == {<<"calc", ".py">>, <<"test_", "calc", ".txt">>}

SampleLines ==
    {<<>>,
     <<"def", " ", "test_x", "(", ")", ":">>,
     <<" ", " ", "def", "\t", "test_y", " ", "(", "self", ")", ":", "\r">>,
     <<"async", " ", "def", " ", "test_x", "(", ")", ":">>,
     <<"class", " ", "TestA", ":">>,
     <<"class", " ", "TestB", "(", "Base", ")", ":">>,
     <<"class", " ", "TestA">>,
     <<"def", " ", "helper", "(", ")", ":">>,
     <<"#", " ", "def", " ", "test_x", "(", ")", ":">>}

SampleContents == UNION {[1..n -> SampleLines] : n \in 0..MaxFileLines}

File(exists, name, readable, lines) ==
    [exists |-> exists, path |-> Dir \o name, readable |-> readable, lines |-> lines]

DefaultFile == File(TRUE, <<"test_", "calc", ".py">>, TRUE, <<>>)

SampleFiles ==
    {File(FALSE, <<"test_", "calc", ".py">>, FALSE, <<>>)}
    \cup {File(TRUE, n, TRUE, <<<<"def", " ", "test_x", "(", ")", ":">>>>) : n \in OtherFileNames}
    \cup {File(TRUE, n, FALSE, <<>>) : n \in TestFileNames}
    \cup {File(TRUE, n, TRUE, c) : n \in TestFileNames, c \in SampleContents}

\* what the subprocess may end with: <<mode, tests>>
SampleAstOutcomes ==
    {<<m, <<>>>> : m \in AstModes}
    \cup {<<"ok", <<e>>>> : e \in RawEntries}
    \cup {<<"nullEntry", <<e>>>> : e \in RawEntries}

----------------------------------------------------------------------------
(* Inputs of the discovery model: a file written from a list of            *)
(* independent top-level declarations of one kind, and the inventory the   *)
(* AST script reports for it.                                              *)

DeclKinds == {"function", "class"}
\* a declaration is [kind, name, style, body, cls]; cls names the enclosing
\* class of a method and is "" for a top-level declaration
DeclStyles == {1, 2, 3}
\* what follows the declaration line: nothing, a statement, or a two-line
\* docstring whose second line reads like a declaration
DeclBodies == {"none", "pass", "doc"}
DeclNames(kind) == IF kind = "class" THEN {"TestA", "TestB"} ELSE {"test_x", "test_y"}

DeclsOfKind(kind) ==
    [kind : {kind}, name : DeclNames(kind), style : DeclStyles, body : DeclBodies, cls : {""}]

Indent(line) == <<" ", " ">> \o line

\* the declaration as a line of Python source
DeclLine(d) ==
    IF d.kind = "method"
    THEN CASE d.style = 1 -> Indent(<<"def", " ", d.name, "(", "self", ")", ":">>)
           [] d.style = 2 -> Indent(<<"def", "\t", d.name, " ", "(", "self", ")", ":", "\r">>)
           [] OTHER       -> Indent(<<"async", " ", "def", " ", d.name, "(", "self", ")", ":">>)
    ELSE IF d.kind = "class"
    THEN CASE d.style = 1 -> <<"class", " ", d.name, ":">>
           [] d.style = 2 -> <<"class", " ", d.name, " ", "(", "Base", ")", ":", "\r">>
           [] OTHER       -> <<"class", "\t", d.name, "(", ")", ":">>
    ELSE CASE d.style = 1 -> <<"def", " ", d.name, "(", ")", ":">>
           [] d.style = 2 -> <<"def", "\t", " ", d.name, " ", "(", "a", ")", ":", "\r">>
           [] OTHER       -> <<"async", " ", "def", " ", d.name, "(", ")", ":">>

TopLevelBodyLines(d) ==
    CASE d.body = "pass" -> <<<<" ", " ", "pass">>>>
      [] d.body = "doc"  ->
            << <<" ", " ", "\"\"\"", "usage", ":">>,
               IF d.kind = "class"
               THEN <<" ", " ", "class", " ", "TestA", ":", "\"\"\"">>
               ELSE <<" ", " ", "def", " ", "test_x", "(", ")", ":", "\"\"\"">> >>
      [] OTHER           -> <<>>

\* the body of a method is indented one level deeper
BodyLines(d) ==
    IF d.kind = "method"
    THEN [i \in 1..Len(TopLevelBodyLines(d)) |-> Indent(TopLevelBodyLines(d)[i])]
    ELSE TopLevelBodyLines(d)

RECURSIVE RenderDecls(_)
RenderDecls(ds) ==
    IF ds = <<>> THEN <<>>
    ELSE <<DeclLine(Head(ds))>> \o BodyLines(Head(ds)) \o RenderDecls(Tail(ds))

RECURSIVE DeclLineNo(_, _)
\* the 1-based line of the i-th declaration in RenderDecls(ds)
DeclLineNo(ds, i) ==
    IF i = 1 THEN 1
    ELSE DeclLineNo(ds, i - 1) + 1 + Len(BodyLines(ds[i - 1]))

\* the inventory of the AST script for the file (spec 4.1, 6): one entry per
\* declaration, a method carrying its class and the qualified name
\* Class::method, a function or method declared with `async def` its async flag
AstInventory(ds) ==
    [i \in 1..Len(ds) |->
        LET entry == IF ds[i].kind = "method"
                     THEN RawEntry(<<ds[i].name>>, DeclLineNo(ds, i), "method", <<ds[i].cls>>,
                                   <<ds[i].cls>> \o Sep \o <<ds[i].name>>)
                     ELSE RawEntry(<<ds[i].name>>, DeclLineNo(ds, i), ds[i].kind, <<>>,
                                   <<ds[i].name>>)
        IN  IF ds[i].kind # "class" /\ ds[i].style = 3 THEN AsyncEntry(entry) ELSE entry]

Reverse(s) == [i \in 1..Len(s) |-> s[Len(s) + 1 - i]]

----------------------------------------------------------------------------
(* The host the runner starts in, and the runner after construction *)

DefaultEditor == [present |-> TRUE, selection |-> <<>>, line |-> 0]

WorkspaceRoot == <<"/", "w">>

Unset == [defined |-> FALSE, value |-> FALSE]

DefaultSettings ==
    [pytestPath |-> [defined |-> FALSE, value |-> <<>>],
     usePoetry |-> Unset,
     pytestArgs |-> [isArray |-> FALSE, value |-> <<>>],
     virtualEnvPath |-> <<>>,
     configPath |-> [kind |-> "undefined", path |-> <<>>, mapping |-> <<>>],
     debugOptions |-> [defined |-> FALSE, args |-> <<>>],
     changeDirectoryToWorkspaceRoot |-> Unset,
     include |-> <<>>,
     exclude |-> <<>>]

BaseDirs ==
    {<<"/">>, WorkspaceRoot, WorkspaceRoot \o <<"/", "pkg">>,
     <<"/", "venv">>, <<"/", "venv", "/", "bin">>}

VenvPythonFile == <<"/", "venv", "/", "bin", "/", "python">>

DefaultDisk == [files |-> {VenvPythonFile}, dirs |-> BaseDirs, poetry |-> {}, unreadable |-> {}]

NoRequest ==
    [kind |-> "none", argument |-> <<>>, options |-> <<>>, collectCoverage |-> FALSE,
     path |-> <<>>]

DefaultHost ==
    /\ editor = DefaultEditor
    /\ workspace = [first |-> WorkspaceRoot, ofDoc |-> WorkspaceRoot]
    /\ disk = DefaultDisk
    /\ poetryEnv = <<>>
    /\ settings = DefaultSettings

\* this.terminal before the first command and after the terminal is closed
NoTerminal == "undefined"

\* no handler has built a command yet.  `built` is what the build numbered
\* seq built: a shell command (kind "string") or a debug configuration (kind
\* "debug"); failed says that the call that built it was rejected afterwards
NothingBuilt == [kind |-> "none", command |-> <<>>, config |-> NoConfig, seq |-> 0, failed |-> FALSE]

\* new PytestRunner(config): no previous command, nothing sent
NewRunner ==
    /\ req = NoRequest
    /\ selector = <<>>
    /\ parseCalls = 0
    /\ execCalls = 0
    /\ sent = <<>>
    /\ debugStarted = <<>>
    /\ warnings = 0
    /\ previousCommand = NoCommand
    /\ rejected = FALSE
    /\ terminal = NoTerminal
    /\ built = NothingBuilt
    /\ saves = 0

\* new PytestRunnerCodeLensProvider(config.codeLensOptions)
\* a call of a handler: where it is suspended ("idle" before it is invoked),
\* its arguments, the texts it built, the debug configuration it built, and
\* the positions in `sent` where its texts landed (0: not sent), the number
\* of its build (0: it built nothing) and whether its promise was rejected
Idle ==
    [at |-> "idle", req |-> NoRequest, cd |-> <<>>, command |-> <<>>, config |-> NoConfig,
     cdAt |-> 0, commandAt |-> 0, build |-> 0, rejected |-> FALSE]

NoOperations == [op \in 1..MaxOps |-> Idle]

\* no direct call of searchPathToParent yet
NoSearch == [startingPath |-> <<>>, ancestorPath |-> <<>>, result |-> <<>>]

NewProvider ==
    /\ lastSuccessfulCodeLens = <<>>
    /\ requests = <<>>

----------------------------------------------------------------------------
(* Specification SpecNodes: processTestNodes applied to any raw list *)

InitNodes ==
    /\ pc = "input"
    /\ file = DefaultFile
    /\ decls = <<>>
    /\ astMode = "ok"
    /\ rawTests \in RawLists
    /\ tree = <<>>
    /\ DefaultHost
    /\ NewRunner
    /\ NewProvider
    /\ search = NoSearch
    /\ inflight = NoOperations

ProcessNodes ==
    /\ pc = "input"
    /\ UNCHANGED saves
    /\ tree' = processTestNodes(rawTests)
    /\ pc' = "done"
    /\ UNCHANGED <<parseVars, envVars, req, runVars, lensVars, search, inflight>>

NextNodes == ProcessNodes

SpecNodes == InitNodes /\ [][NextNodes]_vars

----------------------------------------------------------------------------
(* Specifications SpecParse and SpecDecl: parse(filePath) *)

\* parse(filePath): a fresh PythonTestParser, then parseTestFile
ParseTestFile ==
    /\ pc = "input"
    /\ UNCHANGED saves
    /\ tree' = parseTestFile(file, astMode, rawTests)
    /\ parseCalls' = parseCalls + 1
    /\ execCalls' = IF InvokesInterpreter(file, astMode) THEN execCalls + 1 ELSE execCalls
    /\ pc' = "done"
    /\ UNCHANGED <<parseVars, envVars, req, lensVars, search, inflight>>
    /\ UNCHANGED <<selector, sent, debugStarted, warnings, previousCommand, rejected, terminal,
                   built>>

NextParse == ParseTestFile

\* any sample file, any way the subprocess ends
InitParse ==
    /\ pc = "input"
    /\ file \in SampleFiles
    /\ decls = <<>>
    /\ \E o \in SampleAstOutcomes : astMode = o[1] /\ rawTests = o[2]
    /\ tree = <<>>
    /\ DefaultHost
    /\ NewRunner
    /\ NewProvider
    /\ search = NoSearch
    /\ inflight = NoOperations

SpecParse == InitParse /\ [][NextParse]_vars

\* a test file of N same-kind declarations; the subprocess fails, or reports
\* the file's inventory in source order or in reverse
InitDecl ==
    /\ pc = "input"
    /\ \E kind \in DeclKinds : decls \in UNION {[1..n -> DeclsOfKind(kind)] : n \in 0..MaxDecls}
    /\ file = File(TRUE, <<"test_", "calc", ".py">>, TRUE, RenderDecls(decls))
    /\ astMode \in {"execError", "badJson", "ok"}
    /\ rawTests \in (IF astMode = "ok"
                     THEN {AstInventory(decls), Reverse(AstInventory(decls))}
                     ELSE {<<>>})
    /\ tree = <<>>
    /\ DefaultHost
    /\ NewRunner
    /\ NewProvider
    /\ search = NoSearch
    /\ inflight = NoOperations

SpecDecl == InitDecl /\ [][NextParse]_vars

----------------------------------------------------------------------------
(* pytestRunner.ts: the command handlers.  A handler is an async function:  *)
(* it runs without interruption from one of its awaits to the next, and     *)
(* other calls may run while it is suspended.  inflight[op] is one call;    *)
(* pc is the position of the call that took the last step and req the       *)
(* arguments of the last handler invoked.  The awaits of a handler are      *)
(* `await editor.document.save()`, `await this.goToCwd()` and               *)
(* `await this.runTerminalCommand(command)`.                                 *)

Request(kind, argument, options, collect, path) ==
    [kind |-> kind, argument |-> argument, options |-> options,
     collectCoverage |-> collect, path |-> path]

\* the call is suspended at an await
Suspend(op, call) ==
    /\ inflight' = [inflight EXCEPT ![op] = call]
    /\ pc' = call.at

\* the call returns
Return(op, call) ==
    Suspend(op, [call EXCEPT !.at = IF call.req.kind = "runPreviousTest" THEN "rerun" ELSE "done"])

\* the call's promise is rejected; what it built, if it is the latest build,
\* is marked
Reject(op, call) ==
    /\ rejected' = TRUE
    /\ Return(op, [call EXCEPT !.rejected = TRUE])
    /\ built' = IF call.build # 0 /\ call.build = built.seq
                THEN [built EXCEPT !.failed = TRUE] ELSE built

\* runTerminalCommand up to `await executeCommand('workbench.action.terminal.clear')`:
\* the terminal is created when there is none, and shown
ShowTerminal == "pytest"

\* this.terminal when goToCwd is awaited: goToCwd calls runTerminalCommand
\* only when it has a cd command to send
TerminalAtGoToCwd(cd) == IF cd = ThrownArgs \/ cd = <<>> THEN terminal ELSE ShowTerminal

\* the run handlers from `this.previousCommand = command` to
\* `await this.goToCwd()`: goToCwd reads config.cwd and builds its text
\* when it is called
IssueRun(op, call, command) ==
    IF command = Thrown
    THEN /\ Reject(op, call)
         /\ UNCHANGED <<previousCommand, terminal>>
    ELSE /\ previousCommand' = [kind |-> "string", command |-> command, config |-> NoConfig]
         /\ built' = [kind |-> "string", command |-> command, config |-> NoConfig,
                      seq |-> built.seq + 1, failed |-> FALSE]
         /\ \E cd \in {goToCwd(<<>>)} :
                /\ Suspend(op, [call EXCEPT !.at = "goToCwd", !.command = command, !.cd = cd,
                                            !.build = built.seq + 1])
                /\ terminal' = TerminalAtGoToCwd(cd)
         /\ UNCHANGED rejected

\* faulty variant: the debug command is not recorded as the previous command
executeDebugCommand_NoRecord(config) ==
    /\ debugStarted' = Append(debugStarted, config)
    /\ UNCHANGED previousCommand

\* nothing is queued in this.commands; startDebugging, then
\* previousCommand = debugCommand
executeDebugCommand(config) ==
    /\ debugStarted' = Append(debugStarted, config)
    /\ previousCommand' = [kind |-> "debug", command |-> <<>>, config |-> config]

\* the debug handlers from getDebugConfig's result to `await this.goToCwd()`
IssueDebug(op, call, config) ==
    IF config.thrown
    THEN Reject(op, call) /\ UNCHANGED terminal
    ELSE /\ built' = [kind |-> "debug", command |-> <<>>, config |-> config,
                      seq |-> built.seq + 1, failed |-> FALSE]
         /\ \E cd \in {goToCwd(<<>>)} :
                /\ Suspend(op, [call EXCEPT !.at = "goToCwd", !.config = config, !.cd = cd,
                                            !.build = built.seq + 1])
                /\ terminal' = TerminalAtGoToCwd(cd)
         /\ UNCHANGED rejected

\* getDebugConfig reads config.cwd and config.debugOptions before it builds
\* the arguments: when one of them throws, the mapping is never consulted
DebugWarning(config, path) ==
    IF config.thrown /\ cwd = Thrown THEN 0
    ELSE MappingWarning(settings.configPath, path)

\* runTestsOnPath up to `await this.goToCwd()`
RunTestsOnPath(op, path) ==
    /\ inflight[op].at = "idle"
    /\ req' = Request("runTestsOnPath", <<>>, <<>>, FALSE, path)
    /\ \E command \in {buildPytestCommand(path, <<>>, <<>>)} :
           IssueRun(op, [inflight[op] EXCEPT !.req = Request("runTestsOnPath", <<>>, <<>>, FALSE, path)],
                    command)
    /\ warnings' = warnings + MappingWarning(settings.configPath, path)
    /\ UNCHANGED <<parseVars, tree, envVars, selector, parseCalls, execCalls, sent, debugStarted,
                   saves, lensVars, search>>

\* the handlers of the current file up to `await editor.document.save()`
InvokeOnEditor(op, request) ==
    /\ inflight[op].at = "idle"
    /\ IF ~editor.present
       THEN Return(op, [inflight[op] EXCEPT !.req = request]) /\ UNCHANGED saves
       ELSE /\ Suspend(op, [inflight[op] EXCEPT !.at = "save", !.req = request])
            /\ saves' = saves + 1
    /\ UNCHANGED <<parseVars, tree, envVars, runVars, lensVars, search>>

RunCurrentTest(op, argument, options, collectCoverageFromCurrentFile) ==
    /\ req' = Request("runCurrentTest", argument, options, collectCoverageFromCurrentFile, <<>>)
    /\ InvokeOnEditor(op, Request("runCurrentTest", argument, options,
                                  collectCoverageFromCurrentFile, <<>>))

RunCurrentFile(op, options) ==
    /\ req' = Request("runCurrentFile", <<>>, options, FALSE, <<>>)
    /\ InvokeOnEditor(op, Request("runCurrentFile", <<>>, options, FALSE, <<>>))

RunPreviousTest(op) ==
    /\ UNCHANGED req
    /\ InvokeOnEditor(op, Request("runPreviousTest", <<>>, <<>>, FALSE, <<>>))

\* debugTestsOnPath up to `await this.goToCwd()`
DebugTestsOnPath(op, path) ==
    /\ inflight[op].at = "idle"
    /\ req' = Request("debugTestsOnPath", <<>>, <<>>, FALSE, path)
    /\ \E debugConfig \in {getDebugConfig(path, <<>>)} :
           /\ IssueDebug(op, [inflight[op] EXCEPT
                                  !.req = Request("debugTestsOnPath", <<>>, <<>>, FALSE, path)],
                         debugConfig)
           /\ warnings' = warnings + DebugWarning(debugConfig, path)
    /\ UNCHANGED <<parseVars, tree, envVars, selector, parseCalls, execCalls, sent, debugStarted,
                   previousCommand, saves, lensVars, search>>

DebugCurrentTest(op, currentTestName) ==
    /\ req' = Request("debugCurrentTest", currentTestName, <<>>, FALSE, <<>>)
    /\ InvokeOnEditor(op, Request("debugCurrentTest", currentTestName, <<>>, FALSE, <<>>))

\* the warning of a file that is not a Python test file, and the return
NotATestFile(op) ==
    /\ warnings' = warnings + 1
    /\ Return(op, inflight[op])
    /\ UNCHANGED <<tree, selector, parseCalls, execCalls, debugStarted, previousCommand, rejected,
                   terminal, built>>

\* runCurrentTest from the save to `await this.goToCwd()`
RunCurrentTestAfterSave(op) ==
    IF ~isPythonTestFile(file.path)
    THEN NotATestFile(op)
    ELSE \E call \in {inflight[op]} :
         \E finalOptions \in {FinalOptions(file.path, call.req.options, call.req.collectCoverage)},
            found \in {ResolveTestName(call.req.argument)} :
            \E command \in {buildPytestCommand(file.path, found.fullTestName, finalOptions)} :
                /\ selector' = found.fullTestName
                /\ parseCalls' = IF found.parsed THEN parseCalls + 1 ELSE parseCalls
                /\ execCalls' = IF found.parsed /\ InvokesInterpreter(file, astMode)
                                THEN execCalls + 1 ELSE execCalls
                /\ tree' = IF found.parsed THEN found.testFile ELSE tree
                /\ IssueRun(op, call, command)
                /\ warnings' = warnings + MappingWarning(settings.configPath, file.path)
                /\ UNCHANGED debugStarted

\* runCurrentFile from the save to `await this.goToCwd()`
RunCurrentFileAfterSave(op) ==
    IF ~isPythonTestFile(file.path)
    THEN NotATestFile(op)
    ELSE /\ \E command \in {buildPytestCommand(file.path, <<>>, inflight[op].req.options)} :
                IssueRun(op, inflight[op], command)
         /\ warnings' = warnings + MappingWarning(settings.configPath, file.path)
         /\ UNCHANGED <<tree, selector, parseCalls, execCalls, debugStarted>>

\* runPreviousTest from the save to `await this.goToCwd()`, or to its return
\* when the previous command is a debug command or there is none
RunPreviousTestAfterSave(op) ==
    /\ IF previousCommand.kind = "string"
       THEN /\ \E cd \in {goToCwd(<<>>)} :
                   /\ Suspend(op, [inflight[op] EXCEPT !.at = "goToCwd", !.cd = cd])
                   /\ terminal' = TerminalAtGoToCwd(cd)
            /\ UNCHANGED <<debugStarted, previousCommand>>
       ELSE IF previousCommand.kind = "debug"
       THEN /\ executeDebugCommand(previousCommand.config)
            /\ Return(op, inflight[op])
            /\ UNCHANGED terminal
       ELSE /\ Return(op, inflight[op])
            /\ UNCHANGED <<debugStarted, previousCommand, terminal>>
    /\ UNCHANGED <<tree, selector, parseCalls, execCalls, warnings, rejected, built>>

\* debugCurrentTest from the save to `await this.goToCwd()`
DebugCurrentTestAfterSave(op) ==
    IF ~isPythonTestFile(file.path)
    THEN NotATestFile(op)
    ELSE \E found \in {ResolveTestName(inflight[op].req.argument)} :
            \E debugConfig \in {getDebugConfig(file.path, found.fullTestName)} :
                /\ selector' = found.fullTestName
                /\ parseCalls' = IF found.parsed THEN parseCalls + 1 ELSE parseCalls
                /\ execCalls' = IF found.parsed /\ InvokesInterpreter(file, astMode)
                                THEN execCalls + 1 ELSE execCalls
                /\ tree' = IF found.parsed THEN found.testFile ELSE tree
                /\ IssueDebug(op, inflight[op], debugConfig)
                /\ warnings' = warnings + DebugWarning(debugConfig, file.path)
                /\ UNCHANGED <<debugStarted, previousCommand>>

\* a handler of the current file resumes after `await editor.document.save()`
ResumeAfterSave(op) ==
    /\ inflight[op].at = "save"
    /\ CASE inflight[op].req.kind = "runCurrentTest" -> RunCurrentTestAfterSave(op)
         [] inflight[op].req.kind = "runCurrentFile" -> RunCurrentFileAfterSave(op)
         [] inflight[op].req.kind = "runPreviousTest" -> RunPreviousTestAfterSave(op)
         [] inflight[op].req.kind = "debugCurrentTest" -> DebugCurrentTestAfterSave(op)
    /\ UNCHANGED <<parseVars, envVars, req, sent, saves, lensVars, search>>

\* what sendText receives from runPreviousTest's
\* `this.runTerminalCommand(this.previousCommand)`, read after goToCwd: another
\* call may have made it a debug command in the meantime
PreviousCommandText ==
    IF previousCommand.kind = "string" THEN previousCommand.command ELSE <<"[object Object]">>

\* a handler resumes after `await this.goToCwd()`: the cd text, if any, is
\* passed to this.terminal.sendText, which throws when the terminal was closed
\* during the await; a run handler goes on to
\* `await this.runTerminalCommand(command)`, a debug handler to
\* executeDebugCommand and its return
ResumeAfterGoToCwd(op) ==
    /\ inflight[op].at = "goToCwd"
    /\ \E call \in {inflight[op]} :
           IF call.cd = ThrownArgs \/ (call.cd # <<>> /\ terminal = NoTerminal)
           THEN /\ Reject(op, call)
                /\ UNCHANGED <<sent, debugStarted, previousCommand, terminal>>
           ELSE /\ sent' = IF call.cd = <<>> THEN sent ELSE runTerminalCommand(sent, call.cd[1])
                /\ UNCHANGED <<rejected, built>>
                /\ \E after \in {[call EXCEPT !.cdAt = IF call.cd = <<>> THEN 0 ELSE Len(sent')]} :
                       IF call.req.kind \in {"debugTestsOnPath", "debugCurrentTest"}
                       THEN /\ executeDebugCommand(call.config)
                            /\ Return(op, after)
                            /\ UNCHANGED terminal
                       ELSE /\ Suspend(op, [after EXCEPT
                                                !.at = "runTerminalCommand",
                                                !.command = IF call.req.kind = "runPreviousTest"
                                                            THEN PreviousCommandText
                                                            ELSE call.command])
                            /\ terminal' = ShowTerminal
                            /\ UNCHANGED <<debugStarted, previousCommand>>
    /\ UNCHANGED <<parseVars, tree, envVars, req, selector, parseCalls, execCalls, warnings,
                   saves, lensVars, search>>

\* a run handler resumes after `await this.runTerminalCommand(command)`: the
\* command is passed to this.terminal.sendText, which throws when the terminal
\* was closed during the await; runExternalNativeTerminalCommand has nothing
\* queued
ResumeAfterRunTerminalCommand(op) ==
    /\ inflight[op].at = "runTerminalCommand"
    /\ IF terminal = NoTerminal
       THEN Reject(op, inflight[op]) /\ UNCHANGED sent
       ELSE /\ sent' = runTerminalCommand(sent, inflight[op].command)
            /\ Return(op, [inflight[op] EXCEPT !.commandAt = Len(sent')])
            /\ UNCHANGED <<rejected, built>>
    /\ UNCHANGED <<parseVars, tree, envVars, req, selector, parseCalls, execCalls,
                   debugStarted, warnings, previousCommand, terminal, saves, lensVars, search>>

\* window.onDidCloseTerminal for the runner's terminal: the user closes it
CloseTerminal ==
    /\ terminal # NoTerminal
    /\ terminal' = NoTerminal
    /\ UNCHANGED <<pc, parseVars, tree, envVars, req, selector, parseCalls, execCalls, sent,
                   debugStarted, warnings, previousCommand, rejected, built, saves, lensVars,
                   search, inflight>>

----------------------------------------------------------------------------
(* Specification SpecResolve: run / debug the test at the cursor or in the  *)
(* selection, over files written from classes, methods and functions.       *)

Decl(kind, name, body, cls) ==
    [kind |-> kind, name |-> name, style |-> 1, body |-> body, cls |-> cls]

ResolveDeclChoices ==
    {Decl("class", "TestA", "none", ""),
     Decl("method", "test_x", "pass", "TestA"),
     Decl("method", "test_y", "doc", "TestA"),
     Decl("function", "test_y", "pass", "")}

\* a method stands in a class block, and a class block has a method
WellFormed(ds) ==
    /\ \A i \in 1..Len(ds) :
           ds[i].kind = "method" => i > 1 /\ ds[i - 1].kind \in {"class", "method"}
    /\ \A i \in 1..Len(ds) :
           ds[i].kind = "class" => i < Len(ds) /\ ds[i + 1].kind = "method"

ResolvePrograms ==
    {ds \in UNION {[1..n -> ResolveDeclChoices] : n \in 0..MaxProgram} : WellFormed(ds)}

SelectionAtoms == {"'", "\"", "test_x"}

Selections ==
    (UNION {[1..n -> SelectionAtoms] : n \in 1..MaxSel})
    \cup {<<"BQ", "TestA", ":", ":", "test_x", "BQ">>}

ClassAndMethod == <<Decl("class", "TestA", "none", ""), Decl("method", "test_x", "pass", "TestA")>>

\* the names a CodeLens passes: none, a function, a method, a method of a nested class
Arguments ==
    {<<>>, <<"test_add">>, <<"TestA">> \o Sep \o <<"test_x">>,
     <<"Outer">> \o Sep \o <<"TestA">> \o Sep \o <<"test_x">>}

InitResolve ==
    /\ pc = "input"
    /\ \/ /\ decls \in ResolvePrograms
          /\ \E l \in 0..MaxCursor : editor = [present |-> TRUE, selection |-> <<>>, line |-> l]
          /\ astMode \in {"ok", "execError"}
       \/ /\ decls \in {<<>>, ClassAndMethod}
          /\ \E s \in Selections, l \in 0..1 :
                 editor = [present |-> TRUE, selection |-> s, line |-> l]
          /\ astMode = "ok"
    /\ file = File(TRUE, <<"test_", "calc", ".py">>, TRUE, RenderDecls(decls))
    /\ rawTests = IF astMode = "ok" THEN AstInventory(decls) ELSE <<>>
    /\ tree = <<>>
    /\ workspace = [first |-> WorkspaceRoot, ofDoc |-> WorkspaceRoot]
    /\ disk = DefaultDisk
    /\ poetryEnv = <<>>
    /\ settings = DefaultSettings
    /\ NewRunner
    /\ NewProvider
    /\ search = NoSearch
    /\ inflight = NoOperations

\* one command at a time: a command is invoked when no call is in flight
NextResolve ==
    \/ pc = "input" /\ \E argument \in {<<>>, <<"test_add">>} : RunCurrentTest(1, argument, <<>>, FALSE)
    \/ pc = "input" /\ \E argument \in {<<>>, <<"test_add">>} : DebugCurrentTest(1, argument)
    \/ pc \in {"input", "done"} /\ RunPreviousTest(2)
    \/ \E op \in 1..MaxOps : ResumeAfterSave(op)
    \/ \E op \in 1..MaxOps : ResumeAfterGoToCwd(op)
    \/ \E op \in 1..MaxOps : ResumeAfterRunTerminalCommand(op)

SpecResolve == InitResolve /\ [][NextResolve]_vars

----------------------------------------------------------------------------
(* Specification SpecBuild: every handler, over settings and disks *)

OptionNames == {<<"--cov">>, <<"-v">>}
OptionLists == UNION {[1..n -> OptionNames] : n \in 0..MaxOpts}

PytestArgsSettings ==
    {[isArray |-> FALSE, value |-> <<>>],
     [isArray |-> TRUE, value |-> <<>>],
     [isArray |-> TRUE, value |-> <<<<"-v">>, <<"--tb=short">>>>],
     [isArray |-> TRUE, value |-> <<<<"--cov">>>>]}

ConfigMapping ==
    << [key |-> <<"**/pkg/**">>, value |-> <<"pkg.ini">>],
       [key |-> <<"**/test_*.py">>, value |-> <<"cfg", "/", "pytest.ini">>] >>

SettingsSamples ==
    {DefaultSettings,
     [DefaultSettings EXCEPT !.usePoetry = [defined |-> TRUE, value |-> FALSE]],
     [DefaultSettings EXCEPT !.pytestPath = [defined |-> TRUE, value |-> <<"/", "opt", "/", "pytest">>]],
     [DefaultSettings EXCEPT !.configPath =
          [kind |-> "string", path |-> <<"..", "/", "w", "/", "cfg", "/", "pytest.ini">>,
           mapping |-> <<>>]],
     [DefaultSettings EXCEPT !.configPath =
          [kind |-> "mapping", path |-> <<>>, mapping |-> ConfigMapping]],
     [DefaultSettings EXCEPT !.virtualEnvPath = <<"/", "venv", "/">>],
     [DefaultSettings EXCEPT !.debugOptions = [defined |-> TRUE, args |-> <<<<"--pdb">>>>]],
     [DefaultSettings EXCEPT !.changeDirectoryToWorkspaceRoot = [defined |-> TRUE, value |-> FALSE]]}

BuildSettings ==
    {[st EXCEPT !.pytestArgs = a] : st \in SettingsSamples, a \in PytestArgsSettings}

InRoot(name) == WorkspaceRoot \o <<"/">> \o name

\* <<disk, poetryEnv>>: no configuration file; pytest.ini and the module under
\* test; a Poetry project whose environment is /venv; a Poetry project without
\* Poetry installed; setup.cfg in the package and a plain pyproject.toml
BuildHosts ==
    {<<DefaultDisk, <<>>>>,
     <<[DefaultDisk EXCEPT !.files = @ \cup {InRoot(<<"pytest.ini">>), InRoot(<<"calc", ".py">>)}],
       <<>>>>,
     <<[DefaultDisk EXCEPT !.files = @ \cup {InRoot(<<"pyproject.toml">>)},
                           !.poetry = {InRoot(<<"pyproject.toml">>)}],
       <<"/", "venv">>>>,
     <<[DefaultDisk EXCEPT !.files = @ \cup {InRoot(<<"pyproject.toml">>)},
                           !.poetry = {InRoot(<<"pyproject.toml">>)}],
       <<>>>>,
     <<[DefaultDisk EXCEPT !.files = @ \cup {InRoot(<<"pkg", "/", "setup.cfg">>),
                                             InRoot(<<"pyproject.toml">>)}],
       <<>>>>}

OnMethodLine == [present |-> TRUE, selection |-> <<>>, line |-> 1]
QuotedSelection ==
    [present |-> TRUE, selection |-> <<"'", "TestA", ":", ":", "test_x", "'">>, line |-> 0]
NoEditor == [present |-> FALSE, selection |-> <<>>, line |-> 0]

InitBuild ==
    /\ pc = "input"
    /\ decls = ClassAndMethod
    /\ astMode = "ok"
    /\ rawTests = AstInventory(decls)
    /\ tree = <<>>
    /\ workspace = [first |-> WorkspaceRoot, ofDoc |-> WorkspaceRoot]
    /\ \E h \in BuildHosts : disk = h[1] /\ poetryEnv = h[2]
    /\ \/ /\ settings \in BuildSettings
          /\ file = File(TRUE, <<"test_", "calc", ".py">>, TRUE, RenderDecls(decls))
          /\ editor \in {OnMethodLine, QuotedSelection}
       \/ /\ settings = DefaultSettings
          /\ \E n \in {<<"pkg", "/", "calc", "_test", ".py">>, <<"calc", ".py">>} :
                 file = File(TRUE, n, TRUE, RenderDecls(decls))
          /\ editor \in {OnMethodLine, QuotedSelection, NoEditor}
    /\ NewRunner
    /\ NewProvider
    /\ search = NoSearch
    /\ inflight = NoOperations

\* the file, its folder, and a path that does not exist
Paths == {file.path, Dirname(file.path), InRoot(<<"missing">>)}

\* one command at a time: a command is invoked when no call is in flight
NextBuild ==
    \/ pc = "input" /\ \E argument \in Arguments, options \in OptionLists, collect \in BOOLEAN :
           RunCurrentTest(1, argument, options, collect)
    \/ pc = "input" /\ \E options \in OptionLists : RunCurrentFile(1, options)
    \/ pc = "input" /\ \E path \in Paths : RunTestsOnPath(1, path)
    \/ pc = "input" /\ \E path \in Paths : DebugTestsOnPath(1, path)
    \/ pc = "input" /\ \E argument \in Arguments : DebugCurrentTest(1, argument)
    \/ pc \in {"input", "done"} /\ RunPreviousTest(2)
    \/ \E op \in 1..MaxOps : ResumeAfterSave(op)
    \/ \E op \in 1..MaxOps : ResumeAfterGoToCwd(op)
    \/ \E op \in 1..MaxOps : ResumeAfterRunTerminalCommand(op)
    \/ CloseTerminal

SpecBuild == InitBuild /\ [][NextBuild]_vars

----------------------------------------------------------------------------
(* Specification SpecEnv: the run and debug handlers over project layouts   *)
(* (pyproject.toml, pytest.ini and setup.cfg in the workspace root and in   *)
(* pkg/) and over the settings that choose executable, directory and        *)
(* configuration file.                                                      *)

InPkg(name) == WorkspaceRoot \o <<"/", "pkg", "/">> \o name

\* pyproject.toml of a folder: absent, without or with a [tool.poetry] section
ProjectKinds == {"none", "plain", "poetry"}

RootConfigSets == {{}, {InRoot(<<"pytest.ini">>)}, {InRoot(<<"setup.cfg">>)}}
PkgConfigSets == {{}, {InPkg(<<"setup.cfg">>)}, {InPkg(<<"pytest.ini">>), InPkg(<<"setup.cfg">>)}}

EnvDisk(rootProject, pkgProject, configs) ==
    [files |-> {VenvPythonFile} \cup configs
               \cup (IF rootProject # "none" THEN {InRoot(<<"pyproject.toml">>)} ELSE {})
               \cup (IF pkgProject # "none" THEN {InPkg(<<"pyproject.toml">>)} ELSE {}),
     dirs |-> BaseDirs,
     poetry |-> (IF rootProject = "poetry" THEN {InRoot(<<"pyproject.toml">>)} ELSE {})
                \cup (IF pkgProject = "poetry" THEN {InPkg(<<"pyproject.toml">>)} ELSE {}),
     unreadable |-> {}]

EnvDisks ==
    {EnvDisk(r, p, rc \cup pc_) : r \in ProjectKinds, p \in ProjectKinds,
                                  rc \in RootConfigSets, pc_ \in PkgConfigSets}

EnvSettings ==
    {[DefaultSettings EXCEPT !.usePoetry = u, !.pytestPath = pp,
                             !.virtualEnvPath = v, !.configPath = c] :
        u \in {Unset, [defined |-> TRUE, value |-> FALSE]},
        pp \in {[defined |-> FALSE, value |-> <<>>],
                [defined |-> TRUE, value |-> <<"/", "opt", "/", "pytest">>]},
        v \in {<<>>, <<"/", "venv">>},
        c \in {[kind |-> "undefined", path |-> <<>>, mapping |-> <<>>],
               [kind |-> "string", path |-> <<".", "/", "cfg", "/", "pytest.ini">>,
                mapping |-> <<>>],
               [kind |-> "mapping", path |-> <<>>, mapping |-> ConfigMapping]}}

\* a test file in pkg/ matching both keys of ConfigMapping, one in the root
\* matching the second key only, one in the root matching none
EnvFileNames ==
    {<<"pkg", "/", "test_", "b", ".py">>, <<"test_", "calc", ".py">>, <<"calc", "_test", ".py">>}

InitEnv ==
    /\ pc = "input"
    /\ decls = ClassAndMethod
    /\ astMode = "ok"
    /\ rawTests = AstInventory(decls)
    /\ tree = <<>>
    /\ \E n \in EnvFileNames : file = File(TRUE, n, TRUE, RenderDecls(decls))
    /\ editor = DefaultEditor
    /\ workspace = [first |-> WorkspaceRoot, ofDoc |-> WorkspaceRoot]
    /\ disk \in EnvDisks
    /\ poetryEnv \in {<<>>, <<"/", "venv">>}
    /\ settings \in EnvSettings
    /\ NewRunner
    /\ NewProvider
    /\ search = NoSearch
    /\ inflight = NoOperations

\* one command at a time: a command is invoked when no call is in flight
NextEnv ==
    \/ pc = "input" /\ RunCurrentFile(1, <<>>)
    \/ pc = "input" /\ DebugCurrentTest(1, <<>>)
    \/ pc = "input" /\ \E path \in {Dirname(file.path), InRoot(<<"missing">>)} : RunTestsOnPath(1, path)
    \/ pc = "input" /\ DebugTestsOnPath(1, file.path)
    \/ \E op \in 1..MaxOps : ResumeAfterSave(op)
    \/ \E op \in 1..MaxOps : ResumeAfterGoToCwd(op)
    \/ \E op \in 1..MaxOps : ResumeAfterRunTerminalCommand(op)

SpecEnv == InitEnv /\ [][NextEnv]_vars

----------------------------------------------------------------------------
(* Specification SpecSession: several commands in a row on one runner, the  *)
(* active editor changing between them.                                     *)

SessionFileNames ==
    {<<"test_", "calc", ".py">>, <<"calc", ".py">>, <<"test_", "calc", ".txt">>}

SessionFile(name) == File(TRUE, name, TRUE, RenderDecls(ClassAndMethod))

InitSession ==
    /\ pc = "input"
    /\ decls = ClassAndMethod
    /\ astMode = "ok"
    /\ rawTests = AstInventory(decls)
    /\ tree = <<>>
    /\ workspace = [first |-> WorkspaceRoot, ofDoc |-> WorkspaceRoot]
    /\ disk = DefaultDisk
    /\ poetryEnv = <<>>
    /\ settings \in {DefaultSettings,
                     [DefaultSettings EXCEPT !.changeDirectoryToWorkspaceRoot =
                                                 [defined |-> TRUE, value |-> FALSE]]}
    /\ \E name \in SessionFileNames : file = SessionFile(name)
    /\ editor = OnMethodLine
    /\ NewRunner
    /\ NewProvider
    /\ search = NoSearch
    /\ inflight = NoOperations

\* window.activeTextEditor is another editor, or none, when the next command
\* is invoked
ChangeActiveEditor(name, activeTextEditor) ==
    /\ pc \in {"done", "rerun"}
    /\ saves < MaxCommands
    /\ pc' = "input"
    /\ inflight' = NoOperations
    /\ file' = SessionFile(name)
    /\ editor' = activeTextEditor
    /\ UNCHANGED <<decls, astMode, rawTests, tree, workspace, disk, poetryEnv, settings, req,
                   runVars, saves, lensVars, search>>

\* one command at a time: a command is invoked when no call is in flight
NextSession ==
    \/ pc = "input" /\ RunCurrentTest(1, <<>>, <<>>, FALSE)
    \/ pc = "input" /\ RunCurrentFile(1, <<>>)
    \/ pc = "input" /\ DebugCurrentTest(1, <<>>)
    \/ pc \in {"input", "done"} /\ RunPreviousTest(2)
    \/ \E op \in 1..MaxOps : ResumeAfterSave(op)
    \/ \E op \in 1..MaxOps : ResumeAfterGoToCwd(op)
    \/ \E op \in 1..MaxOps : ResumeAfterRunTerminalCommand(op)
    \/ CloseTerminal
    \/ \E name \in SessionFileNames, activeTextEditor \in {OnMethodLine, NoEditor} :
           ChangeActiveEditor(name, activeTextEditor)

SpecSession == InitSession /\ [][NextSession]_vars

----------------------------------------------------------------------------
(* Specification SpecSearch: searchPathToParent called on its own, with     *)
(* findPytestConfigPath's callback, over starting paths, ancestor paths     *)
(* (the filesystem root among them) and configuration files on disk.        *)

SearchFiles ==
    {<<"/", "pytest.ini">>,
     <<"/", "w", "/", "setup.cfg">>,
     <<"/", "w", "/", "pkg", "/", "pytest.ini">>,
     <<"/", "w", "/", "pkg", "/", "setup.cfg">>}

\* files and folders, one path that does not exist
SearchStarts ==
    {<<"/">>, <<"/", "w">>, <<"/", "w", "/", "pkg">>, <<"/", "venv">>,
     <<"/", "w", "/", "test_", "calc", ".py">>,
     <<"/", "w", "/", "pkg", "/", "test_", "b", ".py">>,
     <<"/", "w", "/", "missing">>}

SearchAncestors == {<<"/">>, <<"/", "w">>, <<"/", "w", "/", "pkg">>}

InitSearch ==
    /\ pc = "input"
    /\ file = DefaultFile
    /\ decls = <<>>
    /\ astMode = "ok"
    /\ rawTests = <<>>
    /\ tree = <<>>
    /\ editor = DefaultEditor
    /\ workspace = [first |-> WorkspaceRoot, ofDoc |-> WorkspaceRoot]
    /\ \E configs \in SUBSET SearchFiles :
           disk = [DefaultDisk EXCEPT
                       !.files = @ \cup configs
                                   \cup {<<"/", "w", "/", "pkg", "/", "test_", "b", ".py">>}]
    /\ poetryEnv = <<>>
    /\ settings = DefaultSettings
    /\ NewRunner
    /\ NewProvider
    /\ search = NoSearch
    /\ inflight = NoOperations

\* searchPathToParent(startingPath, ancestorPath, callback), the callback
\* being the one findPytestConfigPath passes
SearchPathToParent(startingPath, ancestorPath) ==
    /\ pc = "input"
    /\ pc' = "done"
    /\ search' = [startingPath |-> startingPath, ancestorPath |-> ancestorPath,
                  result |-> searchPathToParent(startingPath, ancestorPath, "config")]
    /\ UNCHANGED <<parseVars, tree, envVars, req, runVars, saves, lensVars, inflight>>

NextSearch ==
    \E startingPath \in SearchStarts, ancestorPath \in SearchAncestors :
        SearchPathToParent(startingPath, ancestorPath)

SpecSearch == InitSearch /\ [][NextSearch]_vars

----------------------------------------------------------------------------
(* Specification SpecInterleave: handlers invoked while an earlier call is   *)
(* suspended at an await.  The terminal is not closed in this               *)
(* specification: every text a call sends reaches the terminal.             *)

InitInterleave ==
    /\ pc = "input"
    /\ decls = ClassAndMethod
    /\ astMode = "ok"
    /\ rawTests = AstInventory(decls)
    /\ tree = <<>>
    /\ \E name \in {<<"test_", "calc", ".py">>, <<"calc", ".py">>} :
           file = File(TRUE, name, TRUE, RenderDecls(decls))
    /\ editor = DefaultEditor
    /\ workspace = [first |-> WorkspaceRoot, ofDoc |-> WorkspaceRoot]
    /\ disk = DefaultDisk
    /\ poetryEnv = <<>>
    /\ settings \in {DefaultSettings,
                     [DefaultSettings EXCEPT !.changeDirectoryToWorkspaceRoot =
                                                 [defined |-> TRUE, value |-> FALSE]]}
    /\ NewRunner
    /\ NewProvider
    /\ search = NoSearch
    /\ inflight = NoOperations

\* the names a CodeLens passes, or none
NextInterleave ==
    \E op \in 1..MaxOps :
        \/ \E argument \in {<<>>, <<"test_add">>} : RunCurrentTest(op, argument, <<>>, FALSE)
        \/ DebugCurrentTest(op, <<>>)
        \/ DebugTestsOnPath(op, file.path)
        \/ RunPreviousTest(op)
        \/ ResumeAfterSave(op)
        \/ ResumeAfterGoToCwd(op)
        \/ ResumeAfterRunTerminalCommand(op)

SpecInterleave == InitInterleave /\ [][NextInterleave]_vars

----------------------------------------------------------------------------
(* PytestRunnerCodeLensProvider.ts: the CodeLens provider *)

\* config.codeLensOptions with pytestrunner.codeLens unset
codeLensOptions == <<"run", "debug">>

\* a CodeLens: the 0-based line of its range, the command and its argument
getCodeLensForOption(line, codeLensOption, fullTestName) ==
    [line |-> line, command |-> codeLensOption, argument |-> fullTestName]

RECURSIVE getTestsBlocks(_, _)
\* for each node its lenses, then those of its children
getTestsBlocks(testNodes, options) ==
    IF testNodes = <<>> THEN <<>>
    ELSE LET testNode == Head(testNodes)
         IN  [i \in 1..Len(options) |->
                 getCodeLensForOption(testNode.line - 1, options[i], testNode.fullName)]
             \o getTestsBlocks(testNode.children, options)
             \o getTestsBlocks(Tail(testNodes), options)

\* sync(patterns, {cwd: workspaceRoot, absolute: true}).includes(filePath):
\* the files on disk below cwd (the process directory for '') whose path
\* relative to cwd matches a pattern, as absolute paths
GlobIncludes(patterns, filePath, workspaceRoot) ==
    \E root \in {Segments(PathResolve(workspaceRoot))}, segs \in {Segments(filePath)} :
        /\ file.exists
        /\ Len(segs) > Len(root)
        /\ SubSeq(segs, 1, Len(root)) = root
        /\ \E i \in 1..Len(patterns) :
               SegmentsMatch(patterns[i], SubSeq(segs, Len(root) + 1, Len(segs)))

\* what a call returns and leaves behind
LensOutcome(raised, parsed, testNodes, last) ==
    [raised |-> raised, parsed |-> parsed, testNodes |-> testNodes, last |-> last,
     returned |-> IF raised \/ parsed THEN last ELSE <<>>]

\* provideCodeLenses(document) for the document of `file`.  fsError: the
\* directory walk of fast-glob raises; it is made only when a filter is set.
provideCodeLenses(fsError) ==
    IF ~isPythonTestFile(file.path)
    THEN LensOutcome(FALSE, FALSE, <<>>, lastSuccessfulCodeLens)
    ELSE IF (settings.include # <<>> \/ settings.exclude # <<>>) /\ fsError
    THEN LensOutcome(TRUE, FALSE, <<>>, lastSuccessfulCodeLens)
    ELSE IF settings.include # <<>>
            /\ ~GlobIncludes(settings.include, normalizePath(file.path),
                             normalizePath(currentWorkspaceFolderPath))
    THEN LensOutcome(FALSE, FALSE, <<>>, lastSuccessfulCodeLens)
    ELSE IF settings.exclude # <<>>
            /\ GlobIncludes(settings.exclude, normalizePath(file.path),
                            normalizePath(currentWorkspaceFolderPath))
    THEN LensOutcome(FALSE, FALSE, <<>>, lastSuccessfulCodeLens)
    ELSE Bind({ LensOutcome(FALSE, TRUE, testNodes,
                            IF Len(testNodes) > 0
                            THEN getTestsBlocks(testNodes, codeLensOptions)
                            ELSE <<>>)
                : testNodes \in {parse} })

----------------------------------------------------------------------------
(* Specification SpecLens: CodeLens requests for the documents the user     *)
(* opens and edits.                                                         *)

\* folder: the workspace folder of the document, '' when it is in none
Document(name, ds, mode, folder) ==
    [file |-> File(TRUE, name, TRUE, RenderDecls(ds)), decls |-> ds, astMode |-> mode,
     rawTests |-> IF mode = "ok" THEN AstInventory(ds) ELSE <<>>, folder |-> folder]

\* test_calc.py, test_calc.py after an edit, a file parsed by the regex
\* fallback, a test file without tests in pkg/, a file that is no test file,
\* a test file of pkg/ when pkg is the workspace folder, a test file in a dot
\* folder, and a test file in no workspace folder
LensDocuments ==
    {Document(<<"test_", "calc", ".py">>, <<Decl("function", "test_y", "pass", "")>>, "ok",
              WorkspaceRoot),
     Document(<<"test_", "calc", ".py">>, ClassAndMethod, "ok", WorkspaceRoot),
     Document(<<"calc", "_test", ".py">>, <<Decl("function", "test_y", "none", "")>>, "execError",
              WorkspaceRoot),
     Document(<<"pkg", "/", "test_", "b", ".py">>, <<>>, "ok", WorkspaceRoot),
     Document(<<"calc", ".py">>, <<Decl("function", "test_y", "pass", "")>>, "ok", WorkspaceRoot),
     Document(<<"pkg", "/", "test_", "c", ".py">>, <<Decl("function", "test_x", "pass", "")>>, "ok",
              InRoot(<<"pkg">>)),
     Document(<<".hidden", "/", "test_", "x", ".py">>, <<Decl("function", "test_x", "pass", "")>>,
              "ok", WorkspaceRoot),
     [Document(<<"test_", "out", ".py">>, <<Decl("function", "test_x", "pass", "")>>, "ok", <<>>)
        EXCEPT !.file.path = <<"/", "tmp", "/", "test_", "out", ".py">>]}

LensSettings ==
    {[DefaultSettings EXCEPT !.include = i, !.exclude = e] :
        i \in {<<>>, <<<<"**/test_*.py">>>>}, e \in {<<>>, <<<<"**/pkg/**">>>>}}

InitLens ==
    /\ pc = "input"
    /\ \E d \in LensDocuments :
           /\ file = d.file /\ decls = d.decls /\ astMode = d.astMode /\ rawTests = d.rawTests
           /\ workspace = [first |-> WorkspaceRoot, ofDoc |-> d.folder]
    /\ tree = <<>>
    /\ editor = DefaultEditor
    /\ disk = DefaultDisk
    /\ poetryEnv = <<>>
    /\ settings \in LensSettings
    /\ NewRunner
    /\ NewProvider
    /\ search = NoSearch
    /\ inflight = NoOperations

\* the user opens another document, or saves an edit of this one
OpenDocument(d) ==
    /\ d.file # file
    /\ file' = d.file
    /\ decls' = d.decls
    /\ astMode' = d.astMode
    /\ rawTests' = d.rawTests
    /\ workspace' = [workspace EXCEPT !.ofDoc = d.folder]
    /\ UNCHANGED <<pc, tree, editor, disk, poetryEnv, settings, req, runVars, saves, lensVars,
                   search, inflight>>

\* the editor asks the provider for the lenses of the document
ProvideCodeLenses(fsError) ==
    /\ Len(requests) < MaxRequests
    /\ \E out \in {provideCodeLenses(fsError)} :
           /\ lastSuccessfulCodeLens' = out.last
           /\ tree' = IF out.parsed THEN out.testNodes ELSE tree
           /\ parseCalls' = IF out.parsed THEN parseCalls + 1 ELSE parseCalls
           /\ execCalls' = IF out.parsed /\ InvokesInterpreter(file, astMode)
                           THEN execCalls + 1 ELSE execCalls
           /\ requests' = Append(requests,
                  [path |-> file.path, lines |-> file.lines, raised |-> out.raised,
                   parsed |-> out.parsed, returned |-> out.returned,
                   treeObject |-> parseCalls', execCalls |-> execCalls'])
    /\ UNCHANGED <<pc, parseVars, envVars, req, saves, search, inflight>>
    /\ UNCHANGED <<selector, sent, debugStarted, warnings, previousCommand, rejected, terminal,
                   built>>

NextLens ==
    \/ \E d \in LensDocuments : OpenDocument(d)
    \/ \E fsError \in BOOLEAN : ProvideCodeLenses(fsError)

SpecLens == InitLens /\ [][NextLens]_vars

----------------------------------------------------------------------------
(* Claims about the tree built by processTestNodes (SpecNodes) *)

IsMethodEntry(e) == e.type = "method" /\ e.class # <<>>

ClassEmitted(tests, className) ==
    \E j \in 1..Len(tests) : tests[j].type = "class" /\ tests[j].name = className

\* node n is the tree's node for the raw method entry e
IsNodeOf(n, e) == n.type = "method" /\ n.name = e.name /\ n.class = e.class

\* C2: when the structural parser succeeds, every method entry whose declared
\* class is also emitted as a class entry is a child of a class node of that
\* name, and no top-level node of the returned tree is that method.
C2_MethodsUnderTheirClass ==
    pc = "done" =>
        \A i \in 1..Len(rawTests) :
            (IsMethodEntry(rawTests[i]) /\ ClassEmitted(rawTests, rawTests[i].class)) =>
                /\ \E k \in 1..Len(tree) :
                       /\ tree[k].type = "class"
                       /\ tree[k].name = rawTests[i].class
                       /\ \E m \in 1..Len(tree[k].children) :
                              IsNodeOf(tree[k].children[m], rawTests[i])
                /\ \A k \in 1..Len(tree) : ~IsNodeOf(tree[k], rawTests[i])

\* C2 witness: a class entry and two of its methods were processed, and the
\* class node carries both as children
C2_Witness ==
    /\ pc = "done"
    /\ \E i, j \in 1..Len(rawTests) :
           /\ i # j
           /\ IsMethodEntry(rawTests[i]) /\ IsMethodEntry(rawTests[j])
           /\ rawTests[i].class = rawTests[j].class
           /\ ClassEmitted(rawTests, rawTests[i].class)
    /\ \E k \in 1..Len(tree) : Len(tree[k].children) = 2

\* each class and each method is emitted once, and every method's class is emitted
EmittedOnce(tests) ==
    /\ \A i, j \in 1..Len(tests) :
           (i # j) => (tests[i].name # tests[j].name \/ tests[i].class # tests[j].class)
    /\ \A i \in 1..Len(tests) :
           IsMethodEntry(tests[i]) => ClassEmitted(tests, tests[i].class)

UniqueNames(nodes) ==
    \A i, j \in 1..Len(nodes) : (i # j) => nodes[i].name # nodes[j].name

\* C3: for a raw list in which each class and each of its methods is emitted
\* once, no two top-level nodes of the returned tree share a name (a class with
\* methods appears once) and no two children of one class share a name.
C3_UniqueSiblingNames ==
    (pc = "done" /\ EmittedOnce(rawTests)) =>
        /\ UniqueNames(tree)
        /\ \A k \in 1..Len(tree) : UniqueNames(tree[k].children)


----------------------------------------------------------------------------
(* Claims about parseTestFile (SpecParse, SpecDecl) *)

\* the structural (AST subprocess) result: empty on every failure
StructuralResult == IF astMode = "ok" THEN processTestNodes(rawTests) ELSE <<>>

\* C1: for an existing file whose name passes the test-file heuristic,
\* parseTestFile returns the structural result whenever it is non-empty and
\* otherwise exactly what the regex parser returns for the file.
C1_FallbackToRegex ==
    (pc = "done" /\ file.exists /\ isTestFile(file.path)) =>
        IF StructuralResult # <<>>
        THEN tree = StructuralResult
        ELSE tree = parseWithRegex(file)

\* C1 witness: the subprocess failed and the regex parser still found two entities
C1_Witness ==
    /\ pc = "done"
    /\ file.exists /\ isTestFile(file.path)
    /\ astMode = "execError"
    /\ Len(tree) = 2
    /\ tree = parseWithRegex(file)

OneEntityPerDeclaration ==
    /\ Len(tree) = Len(decls)
    /\ \A i \in 1..Len(tree) :
          /\ tree[i].name = <<decls[i].name>>
          /\ tree[i].type = decls[i].kind
          /\ tree[i].line = DeclLineNo(decls, i)
          /\ tree[i].children = <<>>
    /\ \A i \in 1..(Len(tree) - 1) : tree[i].line < tree[i + 1].line

\* no line of the file other than the declarations reads, once trimmed, like a
\* test declaration
NoLookalikeLine == \A i \in 1..Len(decls) : decls[i].body # "doc"

\* C4 as claimed: for a test file of N independent, non-nested, same-kind
\* declarations, discovery returns exactly N top-level entities in ascending
\* start-line order (the i-th entity is the i-th declaration), whichever
\* parser produced them.
C4_Claimed ==
    pc = "done" => OneEntityPerDeclaration

\* C4 as amended: the same, for files in which no other line reads like a
\* test declaration once trimmed.
C4_OneEntityPerDeclaration ==
    (pc = "done" /\ NoLookalikeLine) => OneEntityPerDeclaration

\* C4 witness: three declarations, each followed by a statement, parsed by the
\* regex fallback after the subprocess printed malformed JSON
C4_Witness ==
    /\ pc = "done"
    /\ astMode = "badJson"
    /\ Len(decls) = 3
    /\ \A i \in 1..3 : decls[i].body = "pass"
    /\ Len(tree) = 3
    /\ tree[3].line = 5

----------------------------------------------------------------------------
(* Claims about the resolver (SpecResolve) *)

\* the call that took the last step has returned
Returned == pc \in {"done", "rerun"}

\* a run / debug of the current test went through findCurrentTestName
Resolved ==
    /\ Returned
    /\ req.kind \in {"runCurrentTest", "debugCurrentTest"}
    /\ req.argument = <<>>
    /\ editor.present
    /\ isPythonTestFile(file.path)

\* line (1-based) is in the body of the i-th declaration, after its declaration line
InBodyOf(i, line) ==
    /\ line > DeclLineNo(decls, i)
    /\ line <= DeclLineNo(decls, i) + Len(BodyLines(decls[i]))

QualifiedName(d) == <<d.cls>> \o Sep \o <<d.name>>

\* C5: with no selection, and the structural parser reporting the file's
\* classes and methods, a cursor on a line of a method's body (after its
\* declaration line) resolves to that method's qualified name Class::method.
C5_CursorInMethodBody ==
    (Resolved /\ editor.selection = <<>> /\ astMode = "ok")
    => \A i \in 1..Len(decls) :
           (decls[i].kind = "method" /\ InBodyOf(i, editor.line + 1))
           => selector = QualifiedName(decls[i])

StartsWithQuote(s) == s # <<>> /\ s[1] \in {"\"", "'", "BQ"}
EndsWithQuote(s) == s # <<>> /\ s[Len(s)] \in {"\"", "'", "BQ"}

\* t is s without its enclosing quote characters: one leading quote character
\* removed if s starts with one, then one trailing quote character removed if
\* what is left ends with one
IsTrimmed(s, t) ==
    \E a \in 0..1, b \in 0..1 :
        /\ a = (IF StartsWithQuote(s) THEN 1 ELSE 0)
        /\ Len(s) - a - b >= 0
        /\ b = (IF EndsWithQuote(SubSeq(s, a + 1, Len(s))) THEN 1 ELSE 0)
        /\ t = SubSeq(s, a + 1, Len(s) - b)

\* C6: when the selection is not empty, the resolved name is the selected text
\* without its enclosing quote characters, whatever the file declares and
\* wherever the cursor is, and the file is not parsed.
C6_SelectionWins ==
    (Resolved /\ editor.selection # <<>>)
    => /\ IsTrimmed(editor.selection, selector)
       /\ parseCalls = 0
       /\ tree = <<>>

\* a quoted selection in a file that declares tests, with the cursor on a declaration
C6_Witness ==
    /\ Resolved
    /\ pc = "done"
    /\ editor.selection = <<"'", "test_x", "\"">>
    /\ selector = <<"test_x">>
    /\ decls = ClassAndMethod
    /\ editor.line = 1
    /\ parseCalls = 0

----------------------------------------------------------------------------
(* Claims about the command builder (SpecBuild) *)

LastSent == sent[Len(sent)]

LastDebug == debugStarted[Len(debugStarted)]

\* a run handler built a command and sent it
RunIssued(kinds) ==
    /\ Returned
    /\ req.kind \in kinds
    /\ ~rejected
    /\ sent # <<>>
    /\ previousCommand.kind = "string"

\* a debug handler built a descriptor and started it
DebugIssued(kinds) ==
    /\ Returned
    /\ req.kind \in kinds
    /\ ~rejected
    /\ debugStarted # <<>>

RECURSIVE Spaced(_)
\* the strings of a list, each preceded by a space
Spaced(list) ==
    IF list = <<>> THEN <<>> ELSE <<" ">> \o Head(list) \o Spaced(Tail(list))

EndsWith(s, suffix) ==
    Len(suffix) <= Len(s) /\ SubSeq(s, Len(s) - Len(suffix) + 1, Len(s)) = suffix

\* the -c segment of the command for the active file, empty when no
\* configuration file applies
ConfigSegment ==
    IF getPytestConfigPath(file.path) # <<>>
    THEN <<" ", "-c", " ", "'">> \o getPytestConfigPath(file.path) \o <<"'">>
    ELSE <<>>

\* C7: for the bare selector test_add and no one-off options, the run command
\* is the executable prefix, the quoted file path, -k with the quoted
\* selector, (the configuration file if one applies,) and then the configured
\* default arguments, which occur only there.
C7_DefaultArgsOnce ==
    (/\ RunIssued({"runCurrentTest"})
     /\ selector = <<"test_add">>
     /\ req.options = <<>>
     /\ ~req.collectCoverage)
    => LastSent = baseCommand
                  \o <<" ", "'">> \o file.path \o <<"'">>
                  \o <<" ", "-k", " ", "'">> \o selector \o <<"'">>
                  \o ConfigSegment
                  \o Spaced(pytestArgs)

SelectorNames == {"TestA", "test_x", "test_add", "Outer"}

AndOf(c, m) == <<c, " ", "and", " ", m>>

\* C8: for a selector Class::method, the run command selects with
\* -k 'Class and method' right after the file path, the debug descriptor with
\* the arguments -k and Class and method right after the file path, and
\* neither holds a double colon.
C8_ClassAndMethod ==
    \A c \in SelectorNames, m \in SelectorNames :
        (selector = <<c>> \o Sep \o <<m>>)
        => /\ RunIssued({"runCurrentTest"})
              => /\ StartsWith(LastSent,
                               pytestCommand \o <<" ", "'">> \o file.path
                               \o <<"'", " ", "-k", " ", "'">> \o AndOf(c, m) \o <<"'">>)
                 /\ Count(LastSent, ":") = 0
           /\ DebugIssued({"debugCurrentTest"})
              => LET args == LastDebug.args
                     n == Len(debugOptions.args)
                 IN  /\ Len(args) >= n + 3
                     /\ args[n + 1] = file.path
                     /\ args[n + 2] = <<"-k">>
                     /\ args[n + 3] = AndOf(c, m)
                     /\ \A i \in 1..Len(args) : Count(args[i], ":") = 0

\* the method under the cursor, found in the parsed tree, is debugged
C8_Witness ==
    /\ DebugIssued({"debugCurrentTest"})
    /\ pc = "done"
    /\ req.argument = <<>>
    /\ parseCalls = 1
    /\ selector = <<"TestA", ":", ":", "test_x">>
    /\ <<"TestA", " ", "and", " ", "test_x">> \in Range(LastDebug.args)

\* the one-off options of the request: the caller's, then --cov and its target
\* when coverage of the current file is asked for
OneOffOptions ==
    IF req.collectCoverage
    THEN req.options \o SubSeq(FinalOptions(file.path, <<>>, TRUE), 1, 2)
    ELSE req.options

RECURSIVE KeepFirst(_, _)
\* the elements of opts from position i on that do not occur earlier in opts
KeepFirst(opts, i) ==
    IF i > Len(opts) THEN <<>>
    ELSE (IF \E j \in 1..(i - 1) : opts[j] = opts[i] THEN <<>> ELSE <<opts[i]>>)
         \o KeepFirst(opts, i + 1)

AppendedInOrder ==
    EndsWith(LastSent, Spaced(pytestArgs) \o Spaced(KeepFirst(OneOffOptions, 1)))

\* C9 as claimed: the distinct one-off options are appended after the default
\* arguments in order of first occurrence, and each option the caller passed
\* occurs exactly once in the whole command.
C9_Claimed ==
    RunIssued({"runCurrentTest", "runCurrentFile"})
    => /\ AppendedInOrder
       /\ \A i \in 1..Len(req.options) : Count(LastSent, req.options[i][1]) = 1

\* C9: the run command ends with the configured default arguments followed by
\* the distinct one-off options, each once, in order of first occurrence.
C9_OptionsAppendedOnce ==
    RunIssued({"runCurrentTest", "runCurrentFile"}) => AppendedInOrder

\* --cov passed twice with coverage of the current file, no --cov among the defaults
C9_Witness ==
    /\ RunIssued({"runCurrentTest"})
    /\ pc = "done"
    /\ req.options = <<<<"--cov">>, <<"--cov">>>>
    /\ req.collectCoverage
    /\ <<"--cov">> \notin Range(pytestArgs)
    /\ Count(LastSent, "--cov") = 1

DebugFlags == {"-s", "--tb=short"}

\* C10: every debug descriptor started has -s and --tb=short among its args,
\* and a text sent to the terminal holds one of them only if the configured
\* default arguments or the one-off options do.
C10_DebugFlagsInDebugOnly ==
    /\ \A i \in 1..Len(debugStarted) :
           \A f \in DebugFlags : <<f>> \in Range(debugStarted[i].args)
    /\ \A i \in 1..Len(sent) :
           \A f \in DebugFlags :
               (<<f>> \notin Range(pytestArgs) /\ <<f>> \notin Range(req.options))
               => Count(sent[i], f) = 0

\* a debug of the current test, the flags not configured, after the cd command
C10_Witness ==
    /\ DebugIssued({"debugCurrentTest", "debugTestsOnPath"})
    /\ pc = "done"
    /\ <<"--tb=short">> \notin Range(pytestArgs)
    /\ sent # <<>>
    /\ Len(LastDebug.args) >= 2
    /\ LastDebug.args[Len(LastDebug.args) - 1] = <<"-s">>
    /\ LastDebug.args[Len(LastDebug.args)] = <<"--tb=short">>

----------------------------------------------------------------------------
(* Claims about the parse cache and the CodeLens provider (SpecLens) *)

\* request i is a parse of the document that request i - 1 parsed, unmodified
SameUnmodifiedFile(i) ==
    /\ requests[i].parsed /\ requests[i - 1].parsed
    /\ requests[i].path = requests[i - 1].path
    /\ requests[i].lines = requests[i - 1].lines

\* C11: parsing the same unmodified file twice in a row returns the tree
\* object of the first call and runs the external interpreter only once.
C11_CacheHit ==
    \A i \in 2..Len(requests) :
        SameUnmodifiedFile(i) =>
            /\ requests[i].treeObject = requests[i - 1].treeObject
            /\ requests[i].execCalls = requests[i - 1].execCalls

\* the value the latest earlier request for `path` produced without an
\* error, [] when there is none
RECURSIVE LastProducedFor(_, _)
LastProducedFor(path, i) ==
    IF i = 0 THEN <<>>
    ELSE IF requests[i].path = path /\ ~requests[i].raised THEN requests[i].returned
    ELSE LastProducedFor(path, i - 1)

\* C12: a request for file F that hits an unexpected error returns what was
\* last successfully produced for F itself.
C12_DegradedResultPerFile ==
    \A i \in 1..Len(requests) :
        requests[i].raised => requests[i].returned = LastProducedFor(requests[i].path, i - 1)

----------------------------------------------------------------------------
(* Claims about the environment the commands are built for (SpecEnv) *)

RECURSIVE WalkUp(_, _)
\* the folders from `folder` up to `root` inclusive, nearest first
WalkUp(folder, root) ==
    IF folder = root \/ Len(folder) <= 1 THEN <<folder>>
    ELSE <<folder>> \o WalkUp(SubSeq(folder, 1, Len(folder) - 2), root)

\* the folder holds a pyproject.toml with a [tool.poetry] section
HoldsPoetryProject(folder) ==
    (folder \o <<"/", "pyproject.toml">>) \in (disk.files \cap disk.poetry)

\* the first folder on the walk from the active file's directory to the
\* workspace root that holds a Poetry project, '' when none does
NearestPoetryProject ==
    LET walk == WalkUp(SubSeq(file.path, 1, Len(file.path) - 4), WorkspaceRoot)
        hits == {i \in 1..Len(walk) : HoldsPoetryProject(walk[i])}
    IN  IF hits = {} THEN <<>> ELSE walk[CHOOSE i \in hits : \A j \in hits : i <= j]

RunKinds == {"runCurrentTest", "runCurrentFile", "runTestsOnPath"}
DebugKinds == {"debugCurrentTest", "debugTestsOnPath"}

PoetryEnabled == ~settings.usePoetry.defined \/ settings.usePoetry.value

\* C13: with Poetry in use, the project root the descriptor runs in is the
\* nearest folder, walking up from the active file's directory to the
\* workspace root, that holds a pyproject.toml with [tool.poetry]; a nested
\* project wins over one in the workspace root.
C13_NearestProjectRoot ==
    (DebugIssued(DebugKinds) /\ PoetryEnabled /\ NearestPoetryProject # <<>>)
    => LastDebug.cwd = NearestPoetryProject

\* the cd command sent before the run command
CdSent == sent[Len(sent) - 1]

CdTo(folder) == <<"cd", " ", "'">> \o folder \o <<"'">>

\* C14: when no Poetry project is found or Poetry is disabled, the working
\* directory of runs and debug sessions is the workspace root, whatever the
\* other settings are.
C14_WorkspaceRootWithoutPoetry ==
    (~PoetryEnabled \/ NearestPoetryProject = <<>>)
    => /\ DebugIssued(DebugKinds) => LastDebug.cwd = WorkspaceRoot
       /\ RunIssued(RunKinds) => CdSent = CdTo(WorkspaceRoot)

ConfiguredPytestPath ==
    IF settings.pytestPath.defined THEN settings.pytestPath.value ELSE <<"pytest">>

PoetryPrefix == <<"poetry", " ", "run", " ", "pytest", " ">>

\* C15: the run command starts with 'poetry run pytest' exactly when Poetry
\* is enabled and a Poetry project is detected, and with the configured
\* pytest path otherwise.
C15_ExecutablePrefix ==
    RunIssued(RunKinds)
    => IF PoetryEnabled /\ NearestPoetryProject # <<>>
       THEN StartsWith(LastSent, PoetryPrefix)
       ELSE StartsWith(LastSent, ConfiguredPytestPath \o <<" ">>)

C15_Witness ==
    /\ RunIssued(RunKinds)
    /\ PoetryEnabled
    /\ NearestPoetryProject = WorkspaceRoot \o <<"/", "pkg">>
    /\ settings.pytestPath.defined
    /\ StartsWith(LastSent, PoetryPrefix)

\* C16: when the Poetry project is detected and enabled but 'poetry env info
\* --path' fails, the run command starts with the configured pytest path.
C16_FallbackWhenPoetryFails ==
    (RunIssued(RunKinds) /\ PoetryEnabled /\ NearestPoetryProject # <<>> /\ poetryEnv = <<>>)
    => StartsWith(LastSent, ConfiguredPytestPath \o <<" ">>)

\* the path the request is about
TargetPath == IF req.path # <<>> THEN req.path ELSE file.path

\* the folders from the target's directory up to the workspace root
TargetWalk ==
    WalkUp(IF TargetPath \in disk.dirs THEN TargetPath ELSE Dirname(TargetPath), WorkspaceRoot)

Precedence == <<<<"pytest.ini">>, <<"pyproject.toml">>, <<"setup.cfg">>>>

Holds(folder, name) == (folder \o <<"/">> \o name) \in disk.files

\* the config file names that exist in some folder of the walk
NamesOnWalk ==
    {n \in 1..Len(Precedence) : \E i \in 1..Len(TargetWalk) : Holds(TargetWalk[i], Precedence[n])}

\* the nearest folder of the walk that holds a config file
NearestConfigFolder ==
    TargetWalk[CHOOSE i \in 1..Len(TargetWalk) :
                   /\ \E n \in 1..Len(Precedence) : Holds(TargetWalk[i], Precedence[n])
                   /\ \A j \in 1..(i - 1) :
                          \A n \in 1..Len(Precedence) : ~Holds(TargetWalk[j], Precedence[n])]

\* in the nearest folder that holds one, the first file in precedence order;
\* '' when no folder of the walk holds one
NearestConfig ==
    IF NamesOnWalk = {} THEN <<>>
    ELSE NearestConfigFolder \o <<"/">>
         \o Precedence[CHOOSE n \in 1..Len(Precedence) :
                           /\ Holds(NearestConfigFolder, Precedence[n])
                           /\ \A k \in 1..(n - 1) : ~Holds(NearestConfigFolder, Precedence[k])]

Within(s, t) == \E i \in 0..(Len(s) - Len(t)) : SubSeq(s, i + 1, i + Len(t)) = t

\* the run command passes `config` with -c, or no -c when config is ''
RunUses(config) ==
    IF config = <<>> THEN Count(LastSent, "-c") = 0
    ELSE Within(LastSent, <<" ", "-c", " ", "'">> \o config \o <<"'">>)

\* the debug descriptor passes `config` after -c, or no -c when config is ''
DebugUses(config) ==
    IF config = <<>> THEN <<"-c">> \notin Range(LastDebug.args)
    ELSE \E i \in 1..(Len(LastDebug.args) - 1) :
             LastDebug.args[i] = <<"-c">> /\ LastDebug.args[i + 1] = config

\* the override that applies to the target: the string, or the value of the
\* first key of the mapping that matches the target; '' when none applies
OverrideFor(target) ==
    IF settings.configPath.kind = "string" THEN settings.configPath.path
    ELSE IF settings.configPath.kind = "mapping"
    THEN LET m == settings.configPath.mapping
             hits == {i \in 1..Len(m) : GlobMatches(m[i].key, target)}
         IN  IF hits = {} THEN <<>> ELSE m[CHOOSE i \in hits : \A j \in hits : i <= j].value
    ELSE <<>>

\* the configuration file C17 expects for the target
ExpectedConfig ==
    IF OverrideFor(TargetPath) # <<>>
    THEN PathResolve2(WorkspaceRoot, OverrideFor(TargetPath))
    ELSE NearestConfig

\* C17: the configuration file passed with -c is the override (the string, or
\* the value of the first mapping key matching the target) resolved against
\* the workspace root, whatever config files are on disk; the discovered file
\* is passed only when no override applies.
C17_OverrideBeforeDiscovery ==
    /\ RunIssued(RunKinds) => RunUses(ExpectedConfig)
    /\ DebugIssued(DebugKinds) => DebugUses(ExpectedConfig)

\* a mapping whose two keys both match a target that has config files of its
\* own on the walk: the first key's value is passed
C17_Witness ==
    /\ RunIssued(RunKinds)
    /\ settings.configPath.kind = "mapping"
    /\ GlobMatches(settings.configPath.mapping[1].key, TargetPath)
    /\ GlobMatches(settings.configPath.mapping[2].key, TargetPath)
    /\ NearestConfig # <<>>
    /\ RunUses(WorkspaceRoot \o <<"/">> \o settings.configPath.mapping[1].value)

\* the config argument of the command or descriptor just issued names `name`
ChosenIsNamed(name) ==
    /\ RunIssued(RunKinds) => Within(LastSent, <<"/">> \o name \o <<"'">>)
    /\ DebugIssued(DebugKinds) =>
           \E i \in 1..(Len(LastDebug.args) - 1) :
               LastDebug.args[i] = <<"-c">> /\ EndsWith(LastDebug.args[i + 1], <<"/">> \o name)

\* C18 as claimed: the discovered file is the first name of the precedence
\* order pytest.ini, pyproject.toml, setup.cfg that exists anywhere between
\* the target's directory and the workspace root.
C18_Claimed ==
    (OverrideFor(TargetPath) = <<>> /\ NamesOnWalk # {})
    => ChosenIsNamed(Precedence[CHOOSE n \in NamesOnWalk : \A k \in NamesOnWalk : n <= k])

\* C18: the discovered file lies in the nearest folder, walking up from the
\* target's directory to the workspace root, that holds a config file, and
\* within that folder it is the first existing one in the order pytest.ini,
\* pyproject.toml, setup.cfg.
C18_NearestFolderThenPrecedence ==
    OverrideFor(TargetPath) = <<>>
    => /\ RunIssued(RunKinds) => RunUses(NearestConfig)
       /\ DebugIssued(DebugKinds) => DebugUses(NearestConfig)

\* the target's folder holds pytest.ini and setup.cfg, the workspace root
\* another config file: the nearer pytest.ini is passed
C18_Witness ==
    /\ RunIssued(RunKinds)
    /\ OverrideFor(TargetPath) = <<>>
    /\ Len(TargetWalk) = 2
    /\ Holds(TargetWalk[1], <<"pytest.ini">>)
    /\ Holds(TargetWalk[1], <<"setup.cfg">>)
    /\ \E n \in 1..Len(Precedence) : Holds(TargetWalk[2], Precedence[n])
    /\ RunUses(TargetWalk[1] \o <<"/", "pytest.ini">>)

----------------------------------------------------------------------------
(* Claims about a session of commands (SpecSession) *)

\* the file name matches the test-file naming heuristic: a .py file with
\* test in its name
MatchesTestNaming(path) ==
    /\ path[Len(path)] = ".py"
    /\ \E i \in 1..Len(Basename(path)) : Basename(path)[i] \in {"test_", "_test", "test"}

CurrentFileCommands == {"runCurrentTest", "runCurrentFile", "debugCurrentTest"}

\* a step of a run-current-test, run-current-file or debug-current-test call
\* made with an active editor on a file that does not match the heuristic
NonTestFileInvocation(op) ==
    /\ inflight'[op] # inflight[op]
    /\ inflight'[op].req.kind \in CurrentFileCommands
    /\ editor.present
    /\ ~MatchesTestNaming(file.path)

\* C19: run-current-test, run-current-file and debug-current-test on an
\* active file that does not match the test-file naming heuristic show one
\* warning and nothing else: nothing is sent to the terminal, no debug
\* session is started and the recorded previous command stays as it was.
\* The call saves the document, and returns after the warning at its next step.
C19_NonTestFileWarnsOnly ==
    [][\A op \in 1..MaxOps :
           NonTestFileInvocation(op)
           => /\ UNCHANGED <<sent, debugStarted, previousCommand>>
              /\ IF inflight[op].at = "idle"
                 THEN inflight'[op].at = "save" /\ warnings' = warnings
                 ELSE /\ inflight[op].at = "save"
                      /\ inflight'[op].at = "done"
                      /\ warnings' = warnings + 1]_vars

\* a run of test_calc.py recorded its command, then debug-current-test was
\* invoked on a file that is not a test file: one warning, no debug session
C19_Witness ==
    /\ pc = "done"
    /\ req.kind = "debugCurrentTest"
    /\ editor.present
    /\ ~MatchesTestNaming(file.path)
    /\ previousCommand.kind = "string"
    /\ Len(sent) = 2
    /\ debugStarted = <<>>
    /\ warnings = 1

----------------------------------------------------------------------------
(* Claims about failures while a command is built (SpecEnv) *)

\* C20: building a run command or a debug descriptor ends without an
\* exception reaching the caller, also when the target path does not exist,
\* when a file cannot be read or when Poetry is not installed.
C20_NoExceptionReachesCaller ==
    (pc # "input" /\ req.kind \in (RunKinds \cup DebugKinds)) => ~rejected

----------------------------------------------------------------------------
(* Claims about failures during discovery (SpecParse) *)

NodeTypes == {"class", "method", "function"}

\* C21: whatever the file (missing, unreadable, not a test file) and however
\* the parser subprocess ends (script missing, interpreter absent, non-zero
\* exit, timeout, malformed JSON, success false, tests not a list, a null
\* entry), parseTestFile returns a list of nodes and raises nothing.
C21_DiscoveryNeverThrows ==
    pc = "done"
    => /\ tree # ThrownList
       /\ \A i \in 1..Len(tree) : tree[i].type \in NodeTypes

\* an unreadable test file whose subprocess output holds a null entry: both
\* the AST parse and the regular-expression fallback fail, the list is empty
C21_Witness ==
    /\ pc = "done"
    /\ file.exists /\ isTestFile(file.path) /\ ~file.readable
    /\ astMode = "nullEntry"
    /\ rawTests # <<>>
    /\ tree = <<>>

----------------------------------------------------------------------------
(* Claims about the test at the cursor (SpecResolve) *)

\* the node starts on the line, or its known line range holds the line
OnLine(node, line) ==
    \/ node.line = line
    \/ node.endLine # 0 /\ node.line <= line /\ line <= node.endLine

RECURSIVE SomeEntityOnLine(_, _)
\* some entity of the tree, at any depth, matches the line
SomeEntityOnLine(nodes, line) ==
    \E i \in 1..Len(nodes) :
        \/ OnLine(nodes[i], line)
        \/ "children" \in DOMAIN nodes[i] /\ SomeEntityOnLine(nodes[i].children, line)

\* run-current-test was invoked without a name and without a selection, and
\* no entity of the parsed tree matches the cursor line
NothingAtCursor ==
    /\ RunIssued({"runCurrentTest"})
    /\ req.argument = <<>>
    /\ editor.selection = <<>>
    /\ ~SomeEntityOnLine(tree, editor.line + 1)

\* C22: with no selection and no entity of the tree on the cursor line, the
\* resolver yields no entity and the run command targets the whole file: it
\* holds the quoted file path and no -k selection expression.
C22_WholeFileWhenNothingAtCursor ==
    NothingAtCursor
    => /\ selector = <<>>
       /\ Count(LastSent, "-k") = 0
       /\ Within(LastSent, <<" ", "'">> \o file.path \o <<"'">>)

\* a file with discovered entities, the cursor on a line none of them is on
C22_Witness ==
    /\ NothingAtCursor
    /\ pc = "done"
    /\ tree # <<>>
    /\ Count(LastSent, "-k") = 0

----------------------------------------------------------------------------
(* Claims about the tree processTestNodes builds (SpecNodes) *)

\* the qualified name the entity should carry
ExpectedFullName(node) ==
    IF node.type = "method" THEN node.class \o Sep \o node.name ELSE node.name

RECURSIVE WellQualified(_)
\* every node of the list, and of the children lists below it, carries its
\* qualified name
WellQualified(nodes) ==
    \A i \in 1..Len(nodes) :
        /\ nodes[i].fullName = ExpectedFullName(nodes[i])
        /\ WellQualified(nodes[i].children)

\* C23: in the tree built from any raw parser output (full_name optional), a
\* method's qualified name is its class's name, '::' and its own name, and a
\* class's or a module-level function's qualified name is its name.
C23_QualifiedNames ==
    pc = "done" => WellQualified(tree)

RECURSIVE SortedByLine(_)
\* the list and every children list below it ascend by start line
SortedByLine(nodes) ==
    /\ \A i \in 1..(Len(nodes) - 1) : nodes[i].line <= nodes[i + 1].line
    /\ \A i \in 1..Len(nodes) : SortedByLine(nodes[i].children)

\* C24: in the tree built from a raw entity list emitted in any order, the
\* top-level list and the children list of each class node are sorted by
\* start line ascending.
C24_SiblingsSortedByLine ==
    pc = "done" => SortedByLine(tree)

----------------------------------------------------------------------------
(* Claims about the order of the texts sent to the terminal (SpecBuild) *)

\* pytestrunner.changeDirectoryToWorkspaceRoot, true when unset
CdEnabled ==
    ~settings.changeDirectoryToWorkspaceRoot.defined \/ settings.changeDirectoryToWorkspaceRoot.value

IsCd(text) == StartsWith(text, <<"cd", " ">>)

\* the text `cd '<config.cwd>'`
CdText == <<"cd", " ", "'">> \o cwd \o <<"'">>

\* the call sent, next to each other, what the setting asks for: the cd
\* command of the working directory and then its pytest command, or its
\* pytest command alone
SendsInOrder(op) ==
    /\ inflight[op].commandAt # 0
    /\ sent[inflight[op].commandAt] = inflight[op].command
    /\ ~IsCd(inflight[op].command)
    /\ IF CdEnabled
       THEN /\ inflight[op].cdAt # 0
            /\ inflight[op].cdAt = inflight[op].commandAt - 1
            /\ sent[inflight[op].cdAt] = CdText
       ELSE inflight[op].cdAt = 0

\* a run of the current test, the current file or a path that built a
\* command has returned, its promise fulfilled
RunStep(op) ==
    /\ inflight[op].at = "done"
    /\ inflight[op].req.kind \in RunKinds
    /\ ~inflight[op].rejected
    /\ inflight[op].req.kind = "runTestsOnPath" \/ (editor.present /\ MatchesTestNaming(file.path))

\* a re-run of a recorded shell command has returned, its promise fulfilled
RerunStep(op) ==
    /\ inflight[op].at = "rerun"
    /\ editor.present
    /\ previousCommand.kind = "string"
    /\ ~inflight[op].rejected

\* every text in the terminal is the cd command or the pytest command of a call
NothingElseSent ==
    \A i \in 1..Len(sent) :
        \E op \in 1..MaxOps : i \in {inflight[op].cdAt, inflight[op].commandAt}

\* a call that sent its pytest command sent the cd command, if the setting
\* asks for one, right before it, and no cd command otherwise
CommandFollowsCd(op) ==
    inflight[op].commandAt # 0
    => inflight[op].cdAt = (IF CdEnabled THEN inflight[op].commandAt - 1 ELSE 0)

\* C25: every run operation (current test, current file, path, re-run of the
\* previous command) sends, when changeDirectoryToWorkspaceRoot is true, the
\* cd command of the working directory and then the pytest command, and when
\* it is false the pytest command alone: no cd command is sent at all.  An
\* operation whose promise is rejected (config.cwd throws, or the terminal is
\* closed while the operation waits for it) sends no pytest command without
\* its cd command either.
C25_CdBeforeCommand ==
    /\ \A op \in 1..MaxOps :
           /\ RunStep(op) => SendsInOrder(op) /\ inflight[op].command = previousCommand.command
           /\ RerunStep(op) => SendsInOrder(op) /\ inflight[op].command = previousCommand.command
           /\ CommandFollowsCd(op)
    /\ ~CdEnabled => \A i \in 1..Len(sent) : ~IsCd(sent[i])
    /\ Returned => NothingElseSent

\* a run of the current file and its re-run, the setting true: cd, command,
\* cd, the same command
C25_Witness ==
    /\ pc = "rerun"
    /\ req.kind = "runCurrentFile"
    /\ CdEnabled
    /\ ~rejected
    /\ RunStep(1) /\ RerunStep(2)
    /\ Len(sent) = 4
    /\ IsCd(sent[1]) /\ sent[2] = previousCommand.command
    /\ IsCd(sent[3]) /\ sent[4] = sent[2]

----------------------------------------------------------------------------
(* Claims about the re-run of the previous command (SpecSession) *)

\* a step of a runPreviousTest call made with an active editor
RerunInvoked(op) ==
    /\ inflight'[op] # inflight[op]
    /\ "runPreviousTest" \in {inflight[op].req.kind, inflight'[op].req.kind}
    /\ editor.present

\* what the most recent operation that built a command produced can be issued
\* again: a debug operation rejected before it started its session (the
\* terminal was closed while it waited to send its cd command) produced none
Reissuable == built.kind = "debug" => ~built.failed

\* the call is rejected and sends nothing
RerunRejected(op) ==
    /\ sent' = sent
    /\ inflight'[op].rejected
    /\ inflight'[op].at = "rerun"

----------------------------------------------------------------------------
(* Claims about searchPathToParent (SpecSearch) *)

ParentFolder(folder) ==
    IF Len(folder) <= 2 THEN <<"/">> ELSE SubSeq(folder, 1, Len(folder) - 2)

RECURSIVE AtOrBelow(_, _)
AtOrBelow(folder, ancestor) ==
    \/ folder = ancestor
    \/ folder # <<"/">> /\ AtOrBelow(ParentFolder(folder), ancestor)

RECURSIVE ChainUp(_, _)
\* the folders from `folder` up to and including `ancestor`, nearest first
ChainUp(folder, ancestor) ==
    IF folder = ancestor THEN <<folder>>
    ELSE <<folder>> \o ChainUp(ParentFolder(folder), ancestor)

\* the folder the traversal starts in
SearchStartFolder ==
    IF search.startingPath \in disk.dirs THEN search.startingPath
    ELSE ParentFolder(search.startingPath)

\* the path `name` has in `folder`
InFolder(folder, name) ==
    IF folder = <<"/">> THEN <<"/">> \o name ELSE folder \o <<"/">> \o name

\* what the callback gives for the folder: its first configuration file in
\* precedence order, '' (falsy) when it has none
CallbackValue(folder) ==
    LET hits == {n \in 1..Len(Precedence) : InFolder(folder, Precedence[n]) \in disk.files}
    IN  IF hits = {} THEN <<>>
        ELSE InFolder(folder, Precedence[CHOOSE n \in hits : \A k \in hits : n <= k])

\* the callback's value for the nearest folder of the chain where it is
\* truthy, '' (false) when it is truthy nowhere on the chain
InclusiveSearch ==
    LET chain == ChainUp(SearchStartFolder, search.ancestorPath)
        hits == {i \in 1..Len(chain) : CallbackValue(chain[i]) # <<>>}
    IN  IF hits = {} THEN <<>>
        ELSE CallbackValue(chain[CHOOSE i \in hits : \A j \in hits : i <= j])

\* a call on an existing starting path at or below the ancestor path
SearchedFromBelow ==
    /\ pc = "done"
    /\ search.startingPath \in (disk.dirs \cup disk.files) \cup {file.path}
    /\ AtOrBelow(SearchStartFolder, search.ancestorPath)

\* C27: for a starting path at or below the ancestor path, searchPathToParent
\* returns the callback's value for the nearest directory, from the starting
\* directory up to and including the ancestor directory, where that value is
\* truthy, and false when it is truthy for none of them; also when the
\* ancestor is the filesystem root.
C27_InclusiveTraversal ==
    SearchedFromBelow => search.result = InclusiveSearch

----------------------------------------------------------------------------
(* Claims about overlapping runs (SpecInterleave) *)

\* C28: when run operations overlap, each operation's cd command is
\* immediately followed in the terminal by that operation's own pytest
\* command: once its cd is sent, nothing else is sent before its command.
C28_CdAndCommandStayPaired ==
    (\A other \in 1..MaxOps : inflight[other].req.kind \in RunKinds \cup {"runPreviousTest", "none"})
    => \A op \in 1..MaxOps :
           inflight[op].cdAt # 0
           => IF inflight[op].commandAt # 0
              THEN inflight[op].commandAt = inflight[op].cdAt + 1
              ELSE Len(sent) = inflight[op].cdAt

====
